---- MODULE Spec2Model ----
(***************************************************************************)
(* Model of the caching and resolution layer of scidd-core:                *)
(*   - LocalAPICache   (scidd/core/cache.py): the SQLite response cache    *)
(*   - genericFilenameResolver (sciid/astro/astro_resolver.py)             *)
(*   - SciDDFileResource (scidd/core/scidd.py): isInCache, filepath,       *)
(*     downloadTo                                                          *)
(***************************************************************************)
EXTENDS Integers, Sequences, FiniteSets, TLC

(***************************************************************************)
(* Bounds of the model.                                                    *)
(***************************************************************************)
NumFilenames == 2       \* filenames that are searched for
NumUrls == 2            \* distinct urls a metadata record can carry
MaxRowId == 3           \* rows ever inserted into one database file
HistLen == 3            \* completed calls that are remembered
MaxResolves == 3        \* completed resolutions of one query
MaxFailures == 1        \* failed metadata requests for one query

FilenameAtoms == <<"a.fits", "b.fits", "c.fits">>
UrlAtoms == <<"http://h/a.fits", "http://h/a.fits.gz", "http://h/b.fits">>

Last(s) == s[Len(s)]

Remember(h, e) == IF Len(h) < HistLen THEN Append(h, e) ELSE Append(Tail(h), e)

(***************************************************************************)
(* JSON text.  An API response is a list of records; of a record only its  *)
(* "url" member is followed here.  The text is a sequence of tokens.       *)
(***************************************************************************)
Urls == {UrlAtoms[i] : i \in 1..NumUrls}

Results == {<<>>} \cup {<<u>> : u \in Urls}

RECURSIVE json_dumps_items(_)
json_dumps_items(l) ==
    IF l = <<>> THEN <<>>
    ELSE LET item == <<"{", "url", ":", Head(l), "}">>
         IN IF Len(l) = 1 THEN item
            ELSE item \o <<",">> \o json_dumps_items(Tail(l))

json_dumps(l) == <<"[">> \o json_dumps_items(l) \o <<"]">>

RECURSIVE json_loads_items(_)
json_loads_items(t) ==
    IF Len(t) < 5 THEN <<>>
    ELSE <<t[4]>> \o json_loads_items(SubSeq(t, 7, Len(t)))

json_loads(t) == json_loads_items(SubSeq(t, 2, Len(t) - 1))

Values == {json_dumps(r) : r \in Results}

(***************************************************************************)
(* Cache keys: CACHE_KEY of genericFilenameResolver, "/".join of the       *)
(* stringified query parts, kept as the sequence of the joined parts.      *)
(***************************************************************************)
Filenames == {FilenameAtoms[i] : i \in 1..NumFilenames}

Queries == [dataset : {"galex"}, release : {"gr6"}, filename : Filenames, uniqueid : {"None"}]

CACHE_KEY(q) ==
    IF q.uniqueid # "None" /\ q.uniqueid # ""
    THEN <<"astro:file", q.dataset, q.release, q.filename, q.uniqueid>>
    ELSE <<"astro:file", q.dataset, q.release, q.filename>>

Keys == {CACHE_KEY(q) : q \in Queries}

(***************************************************************************)
(* The database file of LocalAPICache.                                     *)
(*   exists    a file is at the path                                       *)
(*   hdr       the first page has been written (size > 0 from then on)     *)
(*   meta      the metadata table has been created                         *)
(*   cache     the cache table and its index have been committed           *)
(*   metaRows  rows of the metadata table                                  *)
(*   rows      rows of the cache table                                     *)
(*   seq       AUTOINCREMENT counter of the cache table                    *)
(*   wal       journal_mode=wal has been set on the file                   *)
(***************************************************************************)
NoFile == [exists |-> FALSE, hdr |-> FALSE, meta |-> FALSE, cache |-> FALSE, metaRows |-> 0, rows |-> {}, seq |-> 0, wal |-> FALSE]

EmptyDb == [exists |-> TRUE, hdr |-> FALSE, meta |-> FALSE, cache |-> FALSE, metaRows |-> 0, rows |-> {}, seq |-> 0, wal |-> FALSE]

st_size(f) == IF f.hdr THEN 1 ELSE 0

\* sqlite3.connect(path): opens the file read-write, creating a zero-length one
sqlite3_connect(f) == IF f.exists THEN f ELSE EmptyDb

Ok(f) == [err |-> FALSE, db |-> f]

Err(f) == [err |-> TRUE, db |-> f]

\* CREATE TABLE metadata: commits at once, fails when the table is there
create_metadata(f) == IF f.meta THEN Err(f) ELSE Ok([f EXCEPT !.meta = TRUE, !.hdr = TRUE])

\* INSERT INTO metadata, CREATE TABLE cache, CREATE UNIQUE INDEX, commit
create_cache(f) ==
    IF f.cache THEN Err(f)
    ELSE Ok([f EXCEPT !.cache = TRUE, !.metaRows = f.metaRows + 1])

init_sqlite_db(connection) ==
    LET a == create_metadata(connection)
    IN IF a.err THEN a ELSE create_cache(a.db)

initialize_database(f) ==
    LET is_new_database == ~f.exists
        connection == sqlite3_connect(f)
    IN IF is_new_database THEN init_sqlite_db(connection) ELSE Ok(connection)

dbFilepath_noheal(f) == Ok(f)

dbFilepath(f) ==
    IF f.exists
    THEN IF st_size(f) = 0 THEN initialize_database(NoFile)   \* unlink, then initialize
         ELSE Ok(f)
    ELSE initialize_database(f)

RowsFor(f, key) == {r \in f.rows : r.query = key}

MinId(rs) == CHOOSE i \in {r.id : r \in rs} : \A r \in rs : i <= r.id

\* SELECT json_response FROM cache WHERE query=? ... fetchone()
sql_select(f, key) ==
    LET hits == RowsFor(f, key)
    IN IF hits = {} THEN <<>>
       ELSE <<(CHOOSE r \in hits : r.id = MinId(hits)).json_response>>

sql_insert_or_ignore(f, key, value) ==
    IF RowsFor(f, key) # {} THEN f
    ELSE [f EXCEPT !.rows = f.rows \cup {[id |-> f.seq + 1, query |-> key, json_response |-> value]},
                   !.seq = f.seq + 1]

\* REPLACE INTO cache (query, json_response) VALUES (?,?) under UNIQUE(query)
sql_replace(f, key, value) ==
    [f EXCEPT !.rows = (f.rows \ RowsFor(f, key))
                          \cup {[id |-> f.seq + 1, query |-> key, json_response |-> value]},
              !.seq = f.seq + 1]

Outcome(kind, out, f) == [kind |-> kind, out |-> out, db |-> f]

getitem_default(f, key) ==
    LET a == dbFilepath(f)
        found == sql_select(a.db, key)
    IN IF found = <<>> THEN Outcome("ok", json_dumps(<<>>), a.db)
       ELSE Outcome("ok", found[1], a.db)

getitem(f, key) ==
    LET a == dbFilepath(f)          \* self.dbFilepath.exists()
        b == dbFilepath(a.db)       \* connect(f"file:{self.dbFilepath}?mode=ro")
    IN IF a.err THEN Outcome("OperationalError", <<>>, a.db)
       ELSE IF b.err THEN Outcome("OperationalError", <<>>, b.db)
       ELSE IF ~b.db.exists THEN Outcome("OperationalError", <<>>, b.db)
       ELSE IF ~b.db.cache THEN Outcome("OperationalError", <<>>, b.db)
       ELSE LET value == sql_select(b.db, key)
            IN IF value = <<>> THEN Outcome("KeyError", <<>>, b.db)
               ELSE Outcome("ok", value[1], b.db)

\* pragma journal_mode=wal: writes the first page of a zero-length file
pragma_wal(f) == [f EXCEPT !.wal = TRUE, !.hdr = TRUE]

setitem(f, key, value) ==
    LET a == dbFilepath(f)
        connection == pragma_wal(sqlite3_connect(a.db))
    IN IF a.err THEN Outcome("OperationalError", <<>>, a.db)
       ELSE IF ~connection.cache THEN Outcome("OperationalError", <<>>, connection)
       ELSE Outcome("ok", <<>>, sql_replace(connection, key, value))

(***************************************************************************)
(* genericFilenameResolver: the metadata lookup behind the response cache. *)
(***************************************************************************)
HTTPError == <<"HTTPError">>

ConnectionError == <<"ConnectionError">>

\* what a request of API.get ends with: the records of a response, an error
\* status, or no response
Answers == Results \cup {HTTPError, ConnectionError}

\* LocalAPICache.defaultCache(): the shared instance, constructed on first use
defaultCache(f, made) == IF made THEN Ok(f) ELSE initialize_database(f)

Resolution(kind, out, f, net, wrote) ==
    [kind |-> kind, out |-> out, db |-> f, net |-> net, wrote |-> wrote]

genericFilenameResolver_nowrite(f, made, use, q, answer) ==
    LET c == defaultCache(f, made)
        hit == getitem(c.db, CACHE_KEY(q))
    IN IF use /\ hit.kind = "ok" THEN Resolution("ok", json_loads(hit.out), hit.db, 0, 0)
       ELSE IF answer = HTTPError THEN Resolution("TrillianAPIException", <<>>, hit.db, 1, 0)
       ELSE IF answer = ConnectionError THEN Resolution("ConnectionError", <<>>, hit.db, 1, 0)
       ELSE Resolution("ok", answer, hit.db, 1, 0)

\* a lookup that stores what the failed request left behind
genericFilenameResolver_storefail(f, made, use, q, answer) ==
    LET c == defaultCache(f, made)
        hit == getitem(c.db, CACHE_KEY(q))
        f1 == IF use THEN hit.db ELSE f
    IN IF use /\ c.err THEN Resolution("OperationalError", <<>>, c.db, 0, 0)
       ELSE IF use /\ hit.kind = "ok" THEN Resolution("ok", json_loads(hit.out), hit.db, 0, 0)
       ELSE IF use /\ hit.kind # "KeyError" THEN Resolution(hit.kind, <<>>, hit.db, 0, 0)
       ELSE IF ~use THEN Resolution(IF answer \in Results THEN "ok" ELSE "TrillianAPIException", <<>>, f1, 1, 0)
       ELSE LET w == setitem(f1, CACHE_KEY(q), json_dumps(IF answer \in Results THEN answer ELSE <<>>))
            IN IF answer \notin Results THEN Resolution("TrillianAPIException", <<>>, w.db, 1, 0)
               ELSE IF w.kind = "ok" THEN Resolution("ok", answer, w.db, 1, 1)
               ELSE Resolution(w.kind, <<>>, w.db, 1, 0)

genericFilenameResolver(f, made, use, q, answer) ==
    LET c == defaultCache(f, made)
        hit == getitem(c.db, CACHE_KEY(q))
        f1 == IF use THEN hit.db ELSE f
    IN IF use /\ c.err THEN Resolution("OperationalError", <<>>, c.db, 0, 0)
       ELSE IF use /\ hit.kind = "ok" THEN Resolution("ok", json_loads(hit.out), hit.db, 0, 0)
       ELSE IF use /\ hit.kind # "KeyError" THEN Resolution(hit.kind, <<>>, hit.db, 0, 0)
       ELSE IF answer = HTTPError THEN Resolution("TrillianAPIException", <<>>, f1, 1, 0)
       ELSE IF answer = ConnectionError THEN Resolution("ConnectionError", <<>>, f1, 1, 0)
       ELSE IF ~use THEN Resolution("ok", answer, f1, 1, 0)
       ELSE LET w == setitem(f1, CACHE_KEY(q), json_dumps(answer))
            IN IF w.kind = "ok" THEN Resolution("ok", answer, w.db, 1, 1)
               ELSE Resolution(w.kind, <<>>, w.db, 1, 0)

(***************************************************************************)
(* State.                                                                  *)
(***************************************************************************)
VARIABLES
    dbfile,         \* the file at LocalAPICache._dbFilepath
    constructed,    \* the LocalAPICache object has been constructed
    hist,           \* the last HistLen completed calls and outside events
    useCache,       \* SciIDAstroResolver.useCache
    netCalls,       \* per cache key: metadata requests sent
    netFailed,      \* per cache key: metadata requests that failed
    cacheWrites,    \* per cache key: writes into the response cache
    resolved,       \* per cache key: resolutions that returned
    firstOut,       \* per cache key: what the first resolution returned
    lastOut,        \* per cache key: what the latest resolution returned
    proc,           \* per process sharing the cache directory: where it is in its call
    lastSet,        \* per cache key: the value of the last completed set
    fproc,          \* per process: its SciDDFileResource object and where it is in its call
    files,          \* the files under the cache root and the other download directory
    dirs,           \* per directory: "dir", "missing" or "broken_link"
    remote,         \* the url the resolver answers with, and the name the server has the file under
    decompress,     \* SciDDCacheManager.decompressDownloads
    cm,             \* the cache managers, the response caches and the directories they are rooted at
    sd,             \* a SciDD identifier object and the result of the last call on it
    api,            \* the API object and the result of its last get
    kq,             \* two filename-search queries and their cache keys
    ur,             \* a file identifier of the astro domain and where the read of its url is
    ff              \* the last call of fromFilename

cacheVars == <<dbfile, constructed, hist>>

resolveVars == <<useCache, netCalls, netFailed, cacheWrites, resolved, firstOut, lastOut>>

mpVars == <<proc, lastSet>>

fileVars == <<fproc, files, dirs, remote, decompress>>

callVars == <<api, kq, ur, ff>>

objVars == <<cm, sd, callVars>>

vars == <<cacheVars, resolveVars, mpVars, fileVars, objVars>>

NotYet == <<"-">>

ResolveIdle ==
    /\ useCache = TRUE
    /\ netCalls = [k \in Keys |-> 0]
    /\ netFailed = [k \in Keys |-> 0]
    /\ cacheWrites = [k \in Keys |-> 0]
    /\ resolved = [k \in Keys |-> 0]
    /\ firstOut = [k \in Keys |-> NotYet]
    /\ lastOut = [k \in Keys |-> NotYet]

Procs == {"p1", "p2"}

\* a process that has not constructed its LocalAPICache yet
NewProc ==
    [pc |-> "new", op |-> "none", key |-> <<>>, val |-> <<>>, isnew |-> FALSE,
     conn |-> "none", orph |-> NoFile, rets |-> <<>>, res |-> "-", out |-> <<>>]

MPIdle ==
    /\ proc = [p \in Procs |-> NewProc]
    /\ lastSet = [k \in Keys |-> NotYet]

(***************************************************************************)
(* The file cache.  A file name is the identifier's filename followed by   *)
(* the extensions appended to it; a path is <<directory, name>>; a url is  *)
(* followed by its basename only.  None is the empty sequence.             *)
(***************************************************************************)
FProcs == {"p1", "p2"}

Dirs == {"cache", "other"}

\* SciDDFileResource.filename of the identifier: the last component of its path
FN == <<"n.fits">>

\* the urls the resolver answers with: the file, or a compressed copy of it
RemoteUrls == {FN, FN \o <<".gz">>}

\* SciDD.__init__ and SciDDFileResource.__init__
NewObject(resolver) ==
    [o_filepath |-> <<>>, o_filename |-> <<>>, o_url |-> <<>>, o_resolver |-> resolver,
     pc |-> "idle", rets |-> <<>>, ret |-> <<>>, op |-> "none", arg |-> "None", dir |-> "cache",
     url |-> <<>>, exti |-> 1, dest |-> <<>>, status |-> "-", body |-> "-", mode |-> "-",
     written |-> 0, handle |-> "none", files0 |-> {}, net |-> <<>>, probes |-> <<>>,
     downloaded |-> FALSE, stamped |-> FALSE, url0 |-> <<>>, filepath0 |-> <<>>,
     filename0 |-> <<>>, res |-> "-", out |-> <<>>, cut |-> FALSE, warned |-> FALSE]

FileIdle ==
    /\ fproc = [p \in FProcs |-> NewObject(FALSE)]
    /\ files = {}
    /\ dirs = [d \in Dirs |-> "dir"]
    /\ remote = [url |-> FN, at |-> FN]
    /\ decompress = FALSE

\* no cache manager and no identifier object has been made
CallIdle ==
    /\ api = <<>>
    /\ kq = <<>>
    /\ ur = <<>>
    /\ ff = <<>>

ObjIdle ==
    /\ cm = <<>>
    /\ sd = <<>>
    /\ CallIdle

Event(op, key, val, res, out) == [op |-> op, key |-> key, val |-> val, res |-> res, out |-> out]

(***************************************************************************)
(* SpecCache: one process using the response cache, and its environment.   *)
(***************************************************************************)
InitCache ==
    /\ dbfile \in {NoFile, EmptyDb}
    /\ constructed = FALSE
    /\ hist = <<>>
    /\ ResolveIdle
    /\ MPIdle
    /\ ObjIdle
    /\ FileIdle

\* LocalAPICache.__init__
Construct ==
    /\ ~constructed
    /\ LET a == initialize_database(dbfile)
       IN /\ dbfile' = a.db
          /\ constructed' = ~a.err
          /\ hist' = Remember(hist, Event("init", <<>>, <<>>, IF a.err THEN "OperationalError" ELSE "ok", <<>>))
    /\ UNCHANGED <<resolveVars, mpVars, fileVars, objVars>>

\* LocalAPICache.__getitem__
Get(key) ==
    /\ constructed
    /\ LET r == getitem(dbfile, key)
       IN /\ dbfile' = r.db
          /\ hist' = Remember(hist, Event("get", key, <<>>, r.kind, r.out))
    /\ UNCHANGED <<constructed, resolveVars, mpVars, fileVars, objVars>>

\* LocalAPICache.__setitem__
Set(key, value) ==
    /\ constructed
    /\ dbFilepath(dbfile).db.seq < MaxRowId
    /\ LET r == setitem(dbfile, key, value)
       IN /\ dbfile' = r.db
          /\ hist' = Remember(hist, Event("set", key, value, r.kind, <<>>))
    /\ UNCHANGED <<constructed, resolveVars, mpVars, fileVars, objVars>>

\* the database file is removed while the program runs
EnvDelete ==
    /\ constructed
    /\ dbfile.exists
    /\ dbfile' = NoFile
    /\ hist' = Remember(hist, Event("env_delete", <<>>, <<>>, "ok", <<>>))
    /\ UNCHANGED <<constructed, resolveVars, mpVars, fileVars, objVars>>

\* the database file is left zero-length
EnvTruncate ==
    /\ constructed
    /\ dbfile.exists
    /\ dbfile' = EmptyDb
    /\ hist' = Remember(hist, Event("env_truncate", <<>>, <<>>, "ok", <<>>))
    /\ UNCHANGED <<constructed, resolveVars, mpVars, fileVars, objVars>>

NextCache ==
    \/ Construct
    \/ \E key \in Keys : Get(key)
    \/ \E key \in Keys, value \in Values : Set(key, value)
    \/ EnvDelete
    \/ EnvTruncate

SpecCache == InitCache /\ [][NextCache]_vars

(***************************************************************************)
(* SpecResolve: one process resolving filename-search queries against a    *)
(* cold cache directory.                                                   *)
(***************************************************************************)
InitResolve ==
    /\ dbfile \in {NoFile, EmptyDb}
    /\ constructed = FALSE
    /\ hist = <<>>
    /\ useCache \in BOOLEAN
    /\ netCalls = [k \in Keys |-> 0]
    /\ netFailed = [k \in Keys |-> 0]
    /\ cacheWrites = [k \in Keys |-> 0]
    /\ resolved = [k \in Keys |-> 0]
    /\ firstOut = [k \in Keys |-> NotYet]
    /\ lastOut = [k \in Keys |-> NotYet]
    /\ MPIdle
    /\ ObjIdle
    /\ FileIdle

\* SciIDAstroResolver.genericFilenameResolver
Resolve(q, answer) ==
    LET k == CACHE_KEY(q)
        r == genericFilenameResolver(dbfile, constructed, useCache, q, answer)
    IN /\ resolved[k] < MaxResolves
       /\ netFailed[k] < MaxFailures \/ answer \notin {HTTPError, ConnectionError}
       /\ dbfile' = r.db
       /\ constructed' = (constructed \/ useCache)
       /\ netCalls' = [netCalls EXCEPT ![k] = @ + r.net]
       /\ netFailed' = [netFailed EXCEPT ![k] = @ + (IF r.kind \in {"TrillianAPIException", "ConnectionError"} THEN 1 ELSE 0)]
       /\ cacheWrites' = [cacheWrites EXCEPT ![k] = @ + r.wrote]
       /\ resolved' = [resolved EXCEPT ![k] = @ + (IF r.kind = "ok" THEN 1 ELSE 0)]
       /\ firstOut' = [firstOut EXCEPT ![k] = IF r.kind = "ok" /\ @ = NotYet THEN r.out ELSE @]
       /\ lastOut' = [lastOut EXCEPT ![k] = IF r.kind = "ok" THEN r.out ELSE @]
       /\ UNCHANGED <<hist, useCache, mpVars, fileVars, objVars>>

NextResolve == \E q \in Queries, answer \in Answers : Resolve(q, answer)

SpecResolve == InitResolve /\ [][NextResolve]_vars

(***************************************************************************)
(* SpecMP: two processes on one cache directory.  Each call of a process   *)
(* is a sequence of steps, one per file-system call or SQLite statement,   *)
(* and the steps of the processes interleave.                              *)
(*   conn = "path"    the process has a connection to the file at the path *)
(*   conn = "orphan"  its connection is to a file that was unlinked since; *)
(*                    orph is that file                                    *)
(***************************************************************************)
\* the calls the two processes make: one query, answered by no url or by one
MPKeys == {CACHE_KEY(q) : q \in {r \in Queries : r.filename = FilenameAtoms[1]}}

MPValues == {json_dumps(<<>>), json_dumps(<<UrlAtoms[1]>>)}

InitMP ==
    /\ dbfile = NoFile
    /\ constructed = FALSE
    /\ hist = <<>>
    /\ ResolveIdle
    /\ MPIdle
    /\ ObjIdle
    /\ FileIdle

\* the call of p ends with result res: the connection is closed
Finish(p, res, out) ==
    [proc[p] EXCEPT !.pc = IF proc[p].op = "ctor" /\ res # "ok" THEN "new" ELSE "idle",
                    !.op = "none", !.key = <<>>, !.val = <<>>, !.isnew = FALSE,
                    !.conn = "none", !.orph = NoFile, !.rets = <<>>,
                    !.res = res, !.out = out]

\* return from dbFilepath / _initialize_database to the caller
Return(p) ==
    IF Head(proc[p].rets) = "idle" THEN Finish(p, "ok", <<>>)
    ELSE [proc[p] EXCEPT !.pc = Head(proc[p].rets), !.rets = Tail(proc[p].rets),
                         !.conn = "none", !.orph = NoFile, !.isnew = FALSE]

\* LocalAPICache.__init__ calls _initialize_database
MPConstruct(p) ==
    /\ proc[p].pc = "new"
    /\ proc' = [proc EXCEPT ![p] = [@ EXCEPT !.pc = "init_check", !.op = "ctor", !.rets = <<"idle">>,
                                            !.res = "-", !.out = <<>>]]
    /\ UNCHANGED <<dbfile, lastSet>>
    /\ UNCHANGED <<constructed, hist, resolveVars, fileVars, objVars>>

\* __setitem__ reads self.dbFilepath
MPSetBegin(p, key, value) ==
    /\ proc[p].pc = "idle"
    /\ proc' = [proc EXCEPT ![p] = [@ EXCEPT !.pc = "dbfp_exists", !.op = "set", !.key = key, !.val = value,
                                            !.rets = <<"set_connect">>, !.res = "-", !.out = <<>>]]
    /\ UNCHANGED <<dbfile, lastSet>>
    /\ UNCHANGED <<constructed, hist, resolveVars, fileVars, objVars>>

\* __getitem__ reads self.dbFilepath twice
MPGetBegin(p, key) ==
    /\ proc[p].pc = "idle"
    /\ proc' = [proc EXCEPT ![p] = [@ EXCEPT !.pc = "dbfp_exists", !.op = "get", !.key = key,
                                            !.rets = <<"dbfp_exists", "get_connect">>, !.res = "-", !.out = <<>>]]
    /\ UNCHANGED <<dbfile, lastSet>>
    /\ UNCHANGED <<constructed, hist, resolveVars, fileVars, objVars>>

\* dbFilepath: self._dbFilepath.exists()
MPDbfpExists(p) ==
    /\ proc[p].pc = "dbfp_exists"
    /\ proc' = [proc EXCEPT ![p] = [@ EXCEPT !.pc = IF dbfile.exists THEN "dbfp_stat" ELSE "init_check"]]
    /\ UNCHANGED <<dbfile, lastSet>>
    /\ UNCHANGED <<constructed, hist, resolveVars, fileVars, objVars>>

\* dbFilepath: self._dbFilepath.stat().st_size == 0
MPDbfpStat(p) ==
    /\ proc[p].pc = "dbfp_stat"
    /\ proc' = [proc EXCEPT ![p] =
                    IF ~dbfile.exists THEN Finish(p, "FileNotFoundError", <<>>)
                    ELSE IF st_size(dbfile) = 0 THEN [@ EXCEPT !.pc = "dbfp_unlink"]
                    ELSE Return(p)]
    /\ UNCHANGED <<dbfile, lastSet>>
    /\ UNCHANGED <<constructed, hist, resolveVars, fileVars, objVars>>

\* dbFilepath: self._dbFilepath.unlink(); connections of the others stay on the unlinked file
MPDbfpUnlink(p) ==
    /\ proc[p].pc = "dbfp_unlink"
    /\ IF ~dbfile.exists
       THEN /\ proc' = [proc EXCEPT ![p] = Finish(p, "FileNotFoundError", <<>>)]
            /\ UNCHANGED dbfile
       ELSE /\ dbfile' = NoFile
            /\ proc' = [q \in Procs |->
                          IF q = p THEN [proc[p] EXCEPT !.pc = "init_check"]
                          ELSE IF proc[q].conn = "path"
                               THEN [proc[q] EXCEPT !.conn = "orphan", !.orph = dbfile]
                               ELSE proc[q]]
    /\ UNCHANGED lastSet
    /\ UNCHANGED <<constructed, hist, resolveVars, fileVars, objVars>>

\* _initialize_database: is_new_database = not self._dbFilepath.exists()
MPInitCheck(p) ==
    /\ proc[p].pc = "init_check"
    /\ proc' = [proc EXCEPT ![p] = [@ EXCEPT !.pc = "init_connect", !.isnew = ~dbfile.exists]]
    /\ UNCHANGED <<dbfile, lastSet>>
    /\ UNCHANGED <<constructed, hist, resolveVars, fileVars, objVars>>

\* _initialize_database: sqlite3.connect(self._dbFilepath)
MPInitConnect(p) ==
    /\ proc[p].pc = "init_connect"
    /\ dbfile' = sqlite3_connect(dbfile)
    /\ proc' = [proc EXCEPT ![p] = IF proc[p].isnew THEN [@ EXCEPT !.pc = "init_meta", !.conn = "path"]
                                   ELSE Return(p)]
    /\ UNCHANGED lastSet
    /\ UNCHANGED <<constructed, hist, resolveVars, fileVars, objVars>>

\* _init_sqlite_db: CREATE TABLE metadata
MPInitMeta(p) ==
    /\ proc[p].pc = "init_meta"
    /\ IF proc[p].conn = "orphan"
       THEN /\ proc' = [proc EXCEPT ![p] = Finish(p, "OperationalError", <<>>)]
            /\ UNCHANGED dbfile
       ELSE LET a == create_metadata(dbfile)
            IN /\ dbfile' = a.db
               /\ proc' = [proc EXCEPT ![p] = IF a.err THEN Finish(p, "OperationalError", <<>>)
                                              ELSE [@ EXCEPT !.pc = "init_cache"]]
    /\ UNCHANGED lastSet
    /\ UNCHANGED <<constructed, hist, resolveVars, fileVars, objVars>>

\* _init_sqlite_db: INSERT INTO metadata, CREATE TABLE cache, CREATE UNIQUE INDEX, commit
MPInitTables(p) ==
    /\ proc[p].pc = "init_cache"
    /\ IF proc[p].conn = "orphan"
       THEN /\ proc' = [proc EXCEPT ![p] = Finish(p, "OperationalError", <<>>)]
            /\ UNCHANGED dbfile
       ELSE LET a == create_cache(dbfile)
            IN /\ dbfile' = a.db
               /\ proc' = [proc EXCEPT ![p] = IF a.err THEN Finish(p, "OperationalError", <<>>)
                                              ELSE Return(p)]
    /\ UNCHANGED lastSet
    /\ UNCHANGED <<constructed, hist, resolveVars, fileVars, objVars>>

\* __setitem__: sqlite3.connect(self.dbFilepath, isolation_level=None)
MPSetConnect(p) ==
    /\ proc[p].pc = "set_connect"
    /\ dbfile' = sqlite3_connect(dbfile)
    /\ proc' = [proc EXCEPT ![p] = [@ EXCEPT !.pc = "set_pragma", !.conn = "path"]]
    /\ UNCHANGED lastSet
    /\ UNCHANGED <<constructed, hist, resolveVars, fileVars, objVars>>

\* __setitem__: pragma journal_mode=wal
MPSetPragma(p) ==
    /\ proc[p].pc = "set_pragma"
    /\ IF proc[p].conn = "orphan"
       THEN UNCHANGED dbfile
       ELSE dbfile' = pragma_wal(dbfile)
    /\ proc' = [proc EXCEPT ![p] = [@ EXCEPT !.pc = "set_replace"]]
    /\ UNCHANGED lastSet
    /\ UNCHANGED <<constructed, hist, resolveVars, fileVars, objVars>>

\* __setitem__: REPLACE INTO cache, on the file at the path
MPSetReplace(p) ==
    /\ proc[p].pc = "set_replace"
    /\ proc[p].conn = "path"
    /\ IF ~dbfile.cache
       THEN /\ proc' = [proc EXCEPT ![p] = Finish(p, "OperationalError", <<>>)]
            /\ UNCHANGED <<dbfile, lastSet>>
       ELSE /\ dbfile.seq < MaxRowId
            /\ dbfile' = sql_replace(dbfile, proc[p].key, proc[p].val)
            /\ lastSet' = [lastSet EXCEPT ![proc[p].key] = proc[p].val]
            /\ proc' = [proc EXCEPT ![p] = Finish(p, "ok", <<>>)]
    /\ UNCHANGED <<constructed, hist, resolveVars, fileVars, objVars>>

\* __setitem__: REPLACE INTO cache, on a file unlinked since the connection was
\* opened.  SQLite refuses the write ("refused"), or (journal_mode=wal, the log
\* being named by the path) reports it done, and the file now at the path
\* holds it ("landed") or does not ("lost")
MPSetReplaceOrphan(p, outcome) ==
    /\ proc[p].pc = "set_replace"
    /\ proc[p].conn = "orphan"
    /\ outcome # "refused" => (proc[p].orph.wal /\ proc[p].orph.cache)
    /\ outcome = "landed" => (dbfile.cache /\ dbfile.seq < MaxRowId)
    /\ dbfile' = IF outcome = "landed" THEN sql_replace(dbfile, proc[p].key, proc[p].val) ELSE dbfile
    /\ lastSet' = IF outcome = "refused" THEN lastSet ELSE [lastSet EXCEPT ![proc[p].key] = proc[p].val]
    /\ proc' = [proc EXCEPT ![p] = Finish(p, IF outcome = "refused" THEN "OperationalError" ELSE "ok", <<>>)]
    /\ UNCHANGED <<constructed, hist, resolveVars, fileVars, objVars>>

\* __getitem__: sqlite3.connect(f"file:{self.dbFilepath}?mode=ro", uri=True)
MPGetConnect(p) ==
    /\ proc[p].pc = "get_connect"
    /\ proc' = [proc EXCEPT ![p] = IF ~dbfile.exists THEN Finish(p, "OperationalError", <<>>)
                                   ELSE [@ EXCEPT !.pc = "get_select", !.conn = "path"]]
    /\ UNCHANGED <<dbfile, lastSet>>
    /\ UNCHANGED <<constructed, hist, resolveVars, fileVars, objVars>>

\* __getitem__: SELECT json_response FROM cache WHERE query=?
MPGetSelect(p) ==
    /\ proc[p].pc = "get_select"
    /\ LET f == IF proc[p].conn = "orphan" THEN proc[p].orph ELSE dbfile
           value == sql_select(f, proc[p].key)
       IN proc' = [proc EXCEPT ![p] =
                       IF ~f.cache THEN Finish(p, "OperationalError", <<>>)
                       ELSE IF value = <<>> THEN Finish(p, "KeyError", <<>>)
                       ELSE Finish(p, "ok", value[1])]
    /\ UNCHANGED <<dbfile, lastSet>>
    /\ UNCHANGED <<constructed, hist, resolveVars, fileVars, objVars>>

MPStep(p) ==
    \/ MPConstruct(p)
    \/ \E key \in MPKeys, value \in MPValues : MPSetBegin(p, key, value)
    \/ \E key \in MPKeys : MPGetBegin(p, key)
    \/ MPDbfpExists(p)
    \/ MPDbfpStat(p)
    \/ MPDbfpUnlink(p)
    \/ MPInitCheck(p)
    \/ MPInitConnect(p)
    \/ MPInitMeta(p)
    \/ MPInitTables(p)
    \/ MPSetConnect(p)
    \/ MPSetPragma(p)
    \/ MPSetReplace(p)
    \/ \E outcome \in {"refused", "lost", "landed"} : MPSetReplaceOrphan(p, outcome)
    \/ MPGetConnect(p)
    \/ MPGetSelect(p)

NextMP == \E p \in Procs : MPStep(p)

SpecMP == InitMP /\ [][NextMP]_vars

(***************************************************************************)
(* SpecFile: one process using the file cache.  A call of isInCache,       *)
(* filepath or downloadTo is a sequence of steps, one per file-system call *)
(* or network request; the process can die between any two steps and the  *)
(* other events (files appearing or removed by hand) happen between calls. *)
(***************************************************************************)
COMPRESSED_DOT_FILE_EXTENSIONS == <<".gz", ".bz2", ".zip">>

\* the number of chunks iter_content yields for a response body
BodyChunks == 2

\* somebody else adds a file to the cache directory only while it holds fewer
MaxFiles == 2

PyTrue == <<"True">>

PyFalse == <<"False">>

\* os.path.basename(url)
basename(url) == url

\* os.path.splitext(url)[1].lower()
splitext(url) == IF Len(url) > 1 THEN Last(url) ELSE ".fits"

IsCompressedExt(ext) == \E i \in DOMAIN COMPRESSED_DOT_FILE_EXTENSIONS : COMPRESSED_DOT_FILE_EXTENSIONS[i] = ext

\* what the server sends with a status: the file, compressed when the url
\* names a compressed file, or an error page
BodyOf(url, status) ==
    IF status # "200" THEN "err"
    ELSE IF IsCompressedExt(splitext(url)) THEN "z"
    ELSE "raw"

\* pathlib.Path.exists
exists(fs, ds, path) == ds[path[1]] = "dir" /\ \E f \in fs : f.path = path

FileAt(fs, path) == CHOOSE f \in fs : f.path = path

\* pathlib.Path.unlink(missing_ok=True)
unlink(fs, path) == {f \in fs : f.path # path}

\* open(path, 'wb'): the file is created, or truncated
open_wb(fs, path) == unlink(fs, path) \cup {[path |-> path, size |-> 0, data |-> "none"]}

\* f.write(chunk) of the n-th chunk
write(fs, path, n, data) ==
    {IF f.path = path THEN [f EXCEPT !.size = n, !.data = data] ELSE f : f \in fs}

\* SciDDFileResource.filename
filename(P) == IF P.o_filename = <<>> THEN FN ELSE P.o_filename

\* self.cache.path / self.pathWithinCache() / self.filename
expected_filepath(P) == <<"cache", filename(P)>>

Request(method, url) == [m |-> method, u |-> url]

\* the call of the process has ended, with a value or an exception; cut tells
\* that it ended with the destination file open
FinishF(P, res, out) ==
    [P EXCEPT !.pc = "end", !.rets = <<>>, !.ret = <<>>, !.res = res, !.out = out,
              !.cut = (P.handle # "none"), !.handle = "none"]

\* an exception leaves every frame of the call
RaiseF(P, exception) == FinishF(P, exception, <<>>)

\* return value to the caller
ReturnF(P, value) ==
    IF Head(P.rets) = "api" THEN FinishF(P, "ok", value)
    ELSE [P EXCEPT !.pc = Head(P.rets), !.rets = Tail(P.rets), !.ret = value]

\* a call begins; what the files, the url, the filename and the memoised path
\* were is kept
BeginF(P, op, arg, pc) ==
    [P EXCEPT !.pc = pc, !.rets = <<"api">>, !.op = op, !.arg = arg, !.files0 = files,
              !.url0 = P.o_url, !.filepath0 = P.o_filepath, !.filename0 = filename(P)]

AllIdle == \A p \in FProcs : fproc[p].pc = "idle"

Exts == {COMPRESSED_DOT_FILE_EXTENSIONS[i] : i \in DOMAIN COMPRESSED_DOT_FILE_EXTENSIONS}

CacheNames == {FN} \cup {FN \o <<ext>> : ext \in Exts}

\* the names a server can have the file under
RemoteNames == RemoteUrls \cup {url \o <<ext>> : url \in RemoteUrls, ext \in Exts}

\* the status of a request for url: 200 where the file is, 404 elsewhere, and
\* any request can meet a server error or a connection that fails
ServerSays(url, outcome) ==
    \/ outcome = "200" /\ remote.at = url
    \/ outcome = "404" /\ remote.at # url
    \/ outcome \notin {"200", "404"}

InitFile ==
    /\ dbfile = NoFile
    /\ constructed = FALSE
    /\ hist = <<>>
    /\ ResolveIdle
    /\ MPIdle
    /\ ObjIdle
    /\ \E resolver \in BOOLEAN : fproc = [p \in FProcs |-> NewObject(resolver)]
    /\ files = {}
    /\ dirs \in {d \in [Dirs -> {"dir", "missing", "broken_link"}] : d["other"] = "missing"}
    /\ remote \in {r \in [url : RemoteUrls, at : RemoteNames \cup {<<>>}] :
                       r.at = <<>> \/ r.at = r.url \/ \E ext \in Exts : r.at = r.url \o <<ext>>}
    /\ decompress \in BOOLEAN
    /\ fproc["p1"].o_resolver \/ (remote = [url |-> FN, at |-> FN] /\ ~decompress)

\* a caller calls isInCache()
CallIsInCache(p) ==
    /\ fproc[p].pc = "idle"
    /\ fproc' = [fproc EXCEPT ![p] = BeginF(@, "isInCache", "None", "iic_exists")]
    /\ UNCHANGED <<files, dirs, decompress, remote, cacheVars, resolveVars, mpVars, objVars>>

\* a caller reads the filepath property
CallFilepath(p) ==
    /\ fproc[p].pc = "idle"
    /\ fproc' = [fproc EXCEPT ![p] = BeginF(@, "filepath", "None", "fp_start")]
    /\ UNCHANGED <<files, dirs, decompress, remote, cacheVars, resolveVars, mpVars, objVars>>

\* a caller calls downloadTo(path)
CallDownloadTo(p, path) ==
    /\ fproc[p].pc = "idle"
    /\ fproc' = [fproc EXCEPT ![p] = BeginF(@, "downloadTo", path, "dl_start")]
    /\ UNCHANGED <<files, dirs, decompress, remote, cacheVars, resolveVars, mpVars, objVars>>

\* isInCache: full_path.exists()
IicExists(p) ==
    LET P == [fproc[p] EXCEPT !.o_filename = filename(fproc[p])]
    IN /\ fproc[p].pc = "iic_exists"
       /\ fproc' = [fproc EXCEPT ![p] = IF exists(files, dirs, expected_filepath(P))
                                        THEN [P EXCEPT !.pc = "iic_stat"]
                                        ELSE ReturnF(P, PyFalse)]
       /\ UNCHANGED <<files, dirs, decompress, remote, cacheVars, resolveVars, mpVars, objVars>>

\* isInCache without the look at the size
IicStat_nosize(p) ==
    LET P == fproc[p]
        full_path == expected_filepath(P)
    IN /\ P.pc = "iic_stat"
       /\ fproc' = [fproc EXCEPT ![p] =
                       IF ~exists(files, dirs, full_path) THEN RaiseF(P, "FileNotFoundError")
                       ELSE ReturnF(P, PyTrue)]
       /\ UNCHANGED <<files, dirs, decompress, remote, cacheVars, resolveVars, mpVars, objVars>>

\* isInCache: full_path.stat().st_size == 0
IicStat(p) ==
    LET P == fproc[p]
        full_path == expected_filepath(P)
    IN /\ P.pc = "iic_stat"
       /\ fproc' = [fproc EXCEPT ![p] =
                       IF ~exists(files, dirs, full_path) THEN RaiseF(P, "FileNotFoundError")
                       ELSE IF FileAt(files, full_path).size = 0 THEN [P EXCEPT !.pc = "iic_unlink"]
                       ELSE ReturnF(P, PyTrue)]
       /\ UNCHANGED <<files, dirs, decompress, remote, cacheVars, resolveVars, mpVars, objVars>>

\* isInCache: full_path.unlink(missing_ok=True); a file another process holds
\* open for writing stays with that process, without a name
IicUnlink(p) ==
    LET P == fproc[p]
        full_path == expected_filepath(P)
    IN /\ P.pc = "iic_unlink"
       /\ files' = unlink(files, full_path)
       /\ fproc' = [q \in FProcs |->
                       IF q = p THEN ReturnF(P, PyFalse)
                       ELSE IF fproc[q].handle = "open" /\ fproc[q].dest = full_path
                            THEN [fproc[q] EXCEPT !.handle = "detached"]
                            ELSE fproc[q]]
       /\ UNCHANGED <<dirs, decompress, remote, cacheVars, resolveVars, mpVars, objVars>>

\* filepath: the memoised path, or the file at the expected path
FpStart(p) ==
    LET P == [fproc[p] EXCEPT !.o_filename = IF fproc[p].o_filepath = <<>> THEN filename(fproc[p]) ELSE @]
        expected == expected_filepath(P)
    IN /\ fproc[p].pc = "fp_start"
       /\ fproc' = [fproc EXCEPT ![p] =
                       IF P.o_filepath # <<>> THEN ReturnF(P, P.o_filepath)
                       ELSE IF exists(files, dirs, expected)
                            THEN ReturnF([P EXCEPT !.o_filepath = expected, !.probes = Append(@, expected)], expected)
                            ELSE [P EXCEPT !.pc = "fp_ext", !.exti = 1, !.probes = Append(@, expected)]]
       /\ UNCHANGED <<files, dirs, decompress, remote, cacheVars, resolveVars, mpVars, objVars>>

\* filepath with the compressed extensions tried from the last to the first
FpExt_reversed(p) ==
    LET P == fproc[p]
        expected == expected_filepath(P)
        n == Len(COMPRESSED_DOT_FILE_EXTENSIONS)
        path == <<expected[1], expected[2] \o <<COMPRESSED_DOT_FILE_EXTENSIONS[n + 1 - P.exti]>> >>
        Q == [P EXCEPT !.probes = Append(@, path)]
    IN /\ P.pc = "fp_ext"
       /\ fproc' = [fproc EXCEPT ![p] =
                       IF exists(files, dirs, path)
                       THEN ReturnF([Q EXCEPT !.o_filepath = path], path)
                       ELSE IF P.exti < n
                            THEN [Q EXCEPT !.exti = @ + 1]
                            ELSE [Q EXCEPT !.pc = "dl_start", !.arg = expected[1],
                                           !.rets = <<"fp_after_download">> \o @]]
       /\ UNCHANGED <<files, dirs, decompress, remote, cacheVars, resolveVars, mpVars, objVars>>

\* filepath: the loop over the compressed extensions, then downloadTo
FpExt(p) ==
    LET P == fproc[p]
        expected == expected_filepath(P)
        path == <<expected[1], expected[2] \o <<COMPRESSED_DOT_FILE_EXTENSIONS[P.exti]>> >>
        Q == [P EXCEPT !.probes = Append(@, path)]
    IN /\ P.pc = "fp_ext"
       /\ fproc' = [fproc EXCEPT ![p] =
                       IF exists(files, dirs, path)
                       THEN ReturnF([Q EXCEPT !.o_filepath = path], path)
                       ELSE IF P.exti < Len(COMPRESSED_DOT_FILE_EXTENSIONS)
                            THEN [Q EXCEPT !.exti = @ + 1]
                            ELSE [Q EXCEPT !.pc = "dl_start", !.arg = expected[1],
                                           !.rets = <<"fp_after_download">> \o @]]
       /\ UNCHANGED <<files, dirs, decompress, remote, cacheVars, resolveVars, mpVars, objVars>>

\* filepath: the double check after downloadTo returned
FpAfterDownload(p) ==
    LET P == fproc[p]
        expected == P.ret
    IN /\ P.pc = "fp_after_download"
       /\ fproc' = [fproc EXCEPT ![p] =
                       IF exists(files, dirs, expected)
                       THEN ReturnF([P EXCEPT !.o_filepath = expected], expected)
                       ELSE RaiseF(P, "NotImplementedError")]
       /\ UNCHANGED <<files, dirs, decompress, remote, cacheVars, resolveVars, mpVars, objVars>>

\* downloadTo: the log line reads self.url
DlStart(p) ==
    LET P == [fproc[p] EXCEPT !.downloaded = TRUE]
    IN /\ fproc[p].pc = "dl_start"
       /\ fproc' = [fproc EXCEPT ![p] =
                       IF P.o_url # <<>> THEN [P EXCEPT !.pc = "dl_path"]
                       ELSE IF ~P.o_resolver THEN RaiseF(P, "NoResolverAssignedException")
                       ELSE [P EXCEPT !.pc = "dl_resolve"]]
       /\ UNCHANGED <<files, dirs, decompress, remote, cacheVars, resolveVars, mpVars, objVars>>

\* SciDD.url: self._url = self.resolver.urlForSciDD(self); the resolver asks
\* the metadata service, and answers with a url (answer) or raises (<<>>)
DlResolve(p, answer) ==
    LET P == [fproc[p] EXCEPT !.net = Append(@, Request("RESOLVE", <<>>))]
    IN /\ fproc[p].pc = "dl_resolve"
       /\ answer \in {remote.url, <<>>}
       /\ fproc' = [fproc EXCEPT ![p] =
                       IF answer = <<>> THEN RaiseF(P, "ResolverError")
                       ELSE [P EXCEPT !.o_url = answer, !.pc = "dl_path"]]
       /\ UNCHANGED <<files, dirs, decompress, remote, cacheVars, resolveVars, mpVars, objVars>>

\* downloadTo: the default of path, then the call of isInCache
DlPath(p) ==
    LET P == fproc[p]
    IN /\ P.pc = "dl_path"
       /\ fproc' = [fproc EXCEPT ![p] = [P EXCEPT !.dir = IF P.arg = "None" THEN "cache" ELSE P.arg,
                                                 !.pc = "iic_exists",
                                                 !.rets = <<"dl_after_iic">> \o @]]
       /\ UNCHANGED <<files, dirs, decompress, remote, cacheVars, resolveVars, mpVars, objVars>>

\* downloadTo: if self.isInCache(): return self.filepath
DlAfterIic(p) ==
    LET P == fproc[p]
    IN /\ P.pc = "dl_after_iic"
       /\ fproc' = [fproc EXCEPT ![p] = [P EXCEPT !.pc = IF P.ret = PyTrue THEN "fp_start" ELSE "dl_dir",
                                                 !.ret = <<>>]]
       /\ UNCHANGED <<files, dirs, decompress, remote, cacheVars, resolveVars, mpVars, objVars>>

\* a downloadTo that does not look for a broken link (not what the code does)
DlDir_nocheck(p) ==
    LET P == fproc[p]
        url == P.o_url
        ext == splitext(url)
        target_file_is_compressed == IsCompressedExt(ext)
    IN /\ P.pc = "dl_dir"
       /\ dirs' = [dirs EXCEPT ![P.dir] = IF @ = "missing" THEN "dir" ELSE @]
       /\ fproc' = [fproc EXCEPT ![p] =
                       IF target_file_is_compressed /\ decompress
                       THEN [P EXCEPT !.url = url, !.mode = "decomp", !.pc = "dlc_get"]
                       ELSE [P EXCEPT !.url = url, !.mode = "stream", !.pc = "dl_get"]]
       /\ UNCHANGED <<files, decompress, remote, cacheVars, resolveVars, mpVars, objVars>>

\* downloadTo: the directory is made if it is missing; then the url decides
\* between the decompressing download and the streamed one
DlDir(p) ==
    LET P == fproc[p]
        url == P.o_url
        ext == splitext(url)
        target_file_is_compressed == IsCompressedExt(ext)
    IN /\ P.pc = "dl_dir"
       /\ IF dirs[P.dir] = "broken_link"
          THEN /\ fproc' = [fproc EXCEPT ![p] = RaiseF(P, "Exception")]
               /\ UNCHANGED dirs
          ELSE /\ dirs' = [dirs EXCEPT ![P.dir] = "dir"]
               /\ fproc' = [fproc EXCEPT ![p] =
                               IF target_file_is_compressed /\ decompress
                               THEN [P EXCEPT !.url = url, !.mode = "decomp", !.pc = "dlc_get"]
                               ELSE [P EXCEPT !.url = url, !.mode = "stream", !.pc = "dl_get"]]
       /\ UNCHANGED <<files, decompress, remote, cacheVars, resolveVars, mpVars, objVars>>

\* a download that asks again after a server error (not what the code does)
DlGet_retry(p, outcome) ==
    LET P == [fproc[p] EXCEPT !.net = Append(@, Request("GET", fproc[p].url))]
        asked == \E i \in DOMAIN fproc[p].net : fproc[p].net[i] = Request("GET", fproc[p].url)
    IN /\ fproc[p].pc = "dl_get"
       /\ ServerSays(fproc[p].url, outcome)
       /\ fproc' = [fproc EXCEPT ![p] =
                       CASE outcome = "ConnectionError: HTTPSConnectionPool: Max retries exceeded with url"
                                -> RaiseF([P EXCEPT !.status = outcome], "InternetConnectionError")
                         [] outcome \in {"ConnectionError",
                                         "ConnectionError: HTTPConnectionPool: Max retries exceeded with url"}
                                -> RaiseF([P EXCEPT !.status = outcome], "NotImplementedError")
                         [] outcome = "200" -> [P EXCEPT !.status = outcome, !.body = BodyOf(P.url, outcome),
                                                         !.dest = <<"cache", basename(P.url)>>, !.pc = "dl_open"]
                         [] outcome = "404" -> [P EXCEPT !.status = outcome, !.exti = 1, !.pc = "dl_head"]
                         [] OTHER -> IF asked THEN RaiseF(P, "NotImplementedError") ELSE P]
       /\ UNCHANGED <<files, dirs, decompress, remote, cacheVars, resolveVars, mpVars, objVars>>

\* downloadTo: requests.get(url, stream=True) and raise_for_status; a
\* ConnectionError is told apart by the text of its message, which names the
\* connection pool of the scheme of the url
DlGet(p, outcome) ==
    LET P == [fproc[p] EXCEPT !.net = Append(@, Request("GET", fproc[p].url))]
    IN /\ fproc[p].pc = "dl_get"
       /\ ServerSays(fproc[p].url, outcome)
       /\ fproc' = [fproc EXCEPT ![p] =
                       CASE outcome = "ConnectionError: HTTPSConnectionPool: Max retries exceeded with url"
                                -> RaiseF([P EXCEPT !.status = outcome], "InternetConnectionError")
                         [] outcome \in {"ConnectionError",
                                         "ConnectionError: HTTPConnectionPool: Max retries exceeded with url"}
                                -> RaiseF([P EXCEPT !.status = outcome], "NotImplementedError")
                         [] outcome = "200" -> [P EXCEPT !.status = outcome, !.body = BodyOf(P.url, outcome),
                                                         !.dest = <<"cache", basename(P.url)>>, !.pc = "dl_open"]
                         [] outcome = "404" -> [P EXCEPT !.status = outcome, !.exti = 1, !.pc = "dl_head"]
                         [] OTHER -> RaiseF(P, "NotImplementedError")]
       /\ UNCHANGED <<files, dirs, decompress, remote, cacheVars, resolveVars, mpVars, objVars>>

\* downloadTo: after a 404, requests.head(url+ext) for each compressed extension
\* (logger.warning when the file is found there, and when it is found nowhere)
DlHead(p, status) ==
    LET P == fproc[p]
        ext == COMPRESSED_DOT_FILE_EXTENSIONS[P.exti]
        url == P.url \o <<ext>>
        last == P.exti = Len(COMPRESSED_DOT_FILE_EXTENSIONS)
        Q == [P EXCEPT !.net = Append(@, Request("HEAD", url)),
                       !.warned = (status = "200" \/ last)]
    IN /\ P.pc = "dl_head"
       /\ ServerSays(url, status)
       /\ fproc' = [fproc EXCEPT ![p] =
                       IF status = "200"
                       THEN IF decompress THEN [Q EXCEPT !.url = url, !.mode = "decomp", !.pc = "dlc_get"]
                            ELSE [Q EXCEPT !.url = url, !.pc = "dl_get2"]
                       ELSE IF P.exti < Len(COMPRESSED_DOT_FILE_EXTENSIONS) THEN [Q EXCEPT !.exti = @ + 1]
                       ELSE RaiseF(Q, "FileResourceCouldNotBeFound")]
       /\ UNCHANGED <<files, dirs, decompress, remote, cacheVars, resolveVars, mpVars, objVars>>

\* downloadTo: the file was found with a compressed extension:
\* requests.get(url, stream=True), whatever its status, and the filename setter
DlGet2(p, outcome) ==
    LET P == [fproc[p] EXCEPT !.net = Append(@, Request("GET", fproc[p].url))]
    IN /\ fproc[p].pc = "dl_get2"
       /\ ServerSays(fproc[p].url, outcome)
       /\ fproc' = [fproc EXCEPT ![p] =
                       IF outcome = "ConnectionError" THEN RaiseF(P, "ConnectionError")
                       ELSE [P EXCEPT !.status = outcome, !.body = BodyOf(P.url, outcome),
                                      !.o_filename = basename(P.url), !.o_filepath = <<>>,
                                      !.dest = <<"cache", basename(P.url)>>, !.pc = "dl_open"]]
       /\ UNCHANGED <<files, dirs, decompress, remote, cacheVars, resolveVars, mpVars, objVars>>

\* _download_gz_file, _download_bz2_file, _download_zip_file: requests.get(url)
\* and raise_for_status; _download_zip_file then reads a name it never bound
DlcGet(p, outcome) ==
    LET P == [fproc[p] EXCEPT !.net = Append(@, Request("GET", fproc[p].url))]
    IN /\ fproc[p].pc = "dlc_get"
       /\ ServerSays(fproc[p].url, outcome)
       /\ fproc' = [fproc EXCEPT ![p] =
                       IF outcome = "ConnectionError" THEN RaiseF(P, "ConnectionError")
                       ELSE IF outcome = "404" THEN RaiseF([P EXCEPT !.status = outcome], "NotImplementedError")
                       ELSE IF splitext(P.url) = ".zip"
                            THEN RaiseF([P EXCEPT !.status = outcome, !.o_filename = filename(P)], "NameError")
                       ELSE [P EXCEPT !.status = outcome, !.body = BodyOf(P.url, outcome),
                                      !.o_filename = filename(P),
                                      !.dest = <<P.dir, filename(P)>>, !.pc = "dl_open"]]
       /\ UNCHANGED <<files, dirs, decompress, remote, cacheVars, resolveVars, mpVars, objVars>>

\* open(destination_file, mode='wb'), open(path_to_write, 'wb')
DlOpen(p) ==
    LET P == fproc[p]
    IN /\ P.pc = "dl_open"
       /\ IF dirs[P.dest[1]] # "dir"
          THEN /\ fproc' = [fproc EXCEPT ![p] = RaiseF(P, "FileNotFoundError")]
               /\ UNCHANGED files
          ELSE /\ files' = open_wb(files, P.dest)
               /\ fproc' = [fproc EXCEPT ![p] = [P EXCEPT !.handle = "open", !.written = 0, !.pc = "dl_write"]]
       /\ UNCHANGED <<dirs, decompress, remote, cacheVars, resolveVars, mpVars, objVars>>

\* one chunk is written, of the response as it streams in (the connection can
\* fail at any chunk) or of the decompressed body (an error page does not
\* decompress)
DlWrite(p, fail) ==
    LET P == fproc[p]
        n == P.written + 1
        data == IF P.mode = "decomp" THEN "raw" ELSE P.body
        Q == [P EXCEPT !.written = n]
    IN /\ P.pc = "dl_write"
       /\ fail => P.mode = "stream"
       /\ IF fail \/ (P.mode = "decomp" /\ P.body # "z")
          THEN /\ fproc' = [fproc EXCEPT ![p] = RaiseF(P, IF fail THEN "ConnectionError" ELSE "OSError")]
               /\ UNCHANGED files
          ELSE /\ files' = IF P.handle = "open" THEN write(files, P.dest, n, data) ELSE files
               /\ fproc' = [fproc EXCEPT ![p] = IF n = BodyChunks THEN [Q EXCEPT !.handle = "none", !.pc = "dl_mtime"]
                                                ELSE Q]
       /\ UNCHANGED <<dirs, decompress, remote, cacheVars, resolveVars, mpVars, objVars>>

\* set_file_time_to_last_modified, then the return of the streamed download,
\* or after the decompressing one: self._filepath = ...; self._filename = p.name
DlMtime(p, header) ==
    LET P == fproc[p]
        Q == [P EXCEPT !.stamped = (header = "ok")]
    IN /\ P.pc = "dl_mtime"
       /\ fproc' = [fproc EXCEPT ![p] =
                       IF header = "bad" THEN RaiseF(P, "ValueError")
                       ELSE IF header = "ok" /\ ~exists(files, dirs, P.dest) THEN RaiseF(P, "FileNotFoundError")
                       ELSE IF P.mode = "decomp" THEN RaiseF([Q EXCEPT !.o_filepath = P.dest], "NameError")
                       ELSE ReturnF(Q, P.dest)]
       /\ UNCHANGED <<files, dirs, decompress, remote, cacheVars, resolveVars, mpVars, objVars>>

\* the process dies in the middle of a call
Crash(p) ==
    LET P == fproc[p]
    IN /\ P.pc \notin {"idle", "end"}
       /\ fproc' = [fproc EXCEPT ![p] =
                       [NewObject(P.o_resolver) EXCEPT !.pc = "end", !.op = P.op, !.res = "crash",
                                                       !.cut = (P.handle # "none")]]
       /\ UNCHANGED <<files, dirs, decompress, remote, cacheVars, resolveVars, mpVars, objVars>>

\* the caller has the result of the call; after a crash the next access is made
\* by a new process, with a new object for the identifier
End(p) ==
    LET P == fproc[p]
    IN /\ P.pc = "end"
       /\ fproc' = [fproc EXCEPT ![p] =
                       [NewObject(P.o_resolver) EXCEPT
                           !.o_filepath = IF P.res = "crash" THEN <<>> ELSE P.o_filepath,
                           !.o_filename = IF P.res = "crash" THEN <<>> ELSE P.o_filename,
                           !.o_url = IF P.res = "crash" THEN <<>> ELSE P.o_url]]
       /\ UNCHANGED <<files, dirs, decompress, remote, cacheVars, resolveVars, mpVars, objVars>>

\* SciDD(sci_dd=..., resolver=...): another object for the identifier
Renew(p) ==
    LET P == fproc[p]
    IN /\ AllIdle
       /\ P.o_filepath # <<>> \/ P.o_filename # <<>> \/ P.o_url # <<>>
       /\ fproc' = [fproc EXCEPT ![p] = NewObject(P.o_resolver)]
       /\ UNCHANGED <<files, dirs, decompress, remote, cacheVars, resolveVars, mpVars, objVars>>

\* somebody else puts a file into the cache directory: an empty one at the
\* expected path, or a whole one
EnvWrite(name, size) ==
    LET path == <<"cache", name>>
        data == IF size = 0 THEN "none" ELSE IF Len(name) > 1 THEN "z" ELSE "raw"
    IN /\ AllIdle
       /\ dirs["cache"] = "dir"
       /\ size = 0 => name = FN
       /\ Cardinality(files) < MaxFiles
       /\ files' = unlink(files, path) \cup {[path |-> path, size |-> size, data |-> data]}
       /\ UNCHANGED fproc
       /\ UNCHANGED <<dirs, decompress, remote, cacheVars, resolveVars, mpVars, objVars>>

\* somebody clears a file from the cache by hand
EnvRemove(path) ==
    /\ AllIdle
    /\ exists(files, dirs, path)
    /\ files' = unlink(files, path)
    /\ UNCHANGED fproc
    /\ UNCHANGED <<dirs, decompress, remote, cacheVars, resolveVars, mpVars, objVars>>

FileStep(p) ==
    \/ CallIsInCache(p)
    \/ CallFilepath(p)
    \/ \E path \in {"None", "other"} : CallDownloadTo(p, path)
    \/ IicExists(p)
    \/ IicStat(p)
    \/ IicUnlink(p)
    \/ FpStart(p)
    \/ FpExt(p)
    \/ FpAfterDownload(p)
    \/ DlStart(p)
    \/ \E answer \in RemoteUrls \cup {<<>>} : DlResolve(p, answer)
    \/ DlPath(p)
    \/ DlAfterIic(p)
    \/ DlDir(p)
    \/ \E outcome \in {"200", "404", "500", "ConnectionError",
                       "ConnectionError: HTTPConnectionPool: Max retries exceeded with url",
                       "ConnectionError: HTTPSConnectionPool: Max retries exceeded with url"} : DlGet(p, outcome)
    \/ \E status \in {"200", "404"} : DlHead(p, status)
    \/ \E outcome \in {"200", "404", "500", "ConnectionError"} : DlGet2(p, outcome)
    \/ \E outcome \in {"200", "404", "500", "ConnectionError"} : DlcGet(p, outcome)
    \/ DlOpen(p)
    \/ \E fail \in BOOLEAN : DlWrite(p, fail)
    \/ \E header \in {"absent", "ok", "bad"} : DlMtime(p, header)
    \/ Crash(p)
    \/ End(p)
    \/ Renew(p)

NextFile ==
    \/ FileStep("p1")
    \/ \E name \in CacheNames, size \in {0, BodyChunks} : EnvWrite(name, size)
    \/ \E f \in files : EnvRemove(f.path)

SpecFile == InitFile /\ [][NextFile]_vars

(***************************************************************************)
(* SpecFileMP: two processes, each with its own object for the same        *)
(* identifier, use one cache directory.  The steps are those of SpecFile;  *)
(* the directory exists, the resolver and the server answer.               *)
(***************************************************************************)
InitFileMP ==
    /\ dbfile = NoFile
    /\ constructed = FALSE
    /\ hist = <<>>
    /\ ResolveIdle
    /\ MPIdle
    /\ ObjIdle
    /\ fproc = [p \in FProcs |-> NewObject(TRUE)]
    /\ files = {}
    /\ dirs = [d \in Dirs |-> IF d = "cache" THEN "dir" ELSE "missing"]
    /\ remote = [url |-> FN, at |-> FN]
    /\ decompress = FALSE

\* the number of paths a filepath access has looked at up to which files are
\* removed under it (filepath calls downloadTo, which calls filepath again
\* when it finds the file)
MaxProbes == 5

\* another user of the cache directory removes a file, at any moment; a file a
\* process holds open for writing stays with that process, without a name
EnvRemoveMP(path) ==
    /\ exists(files, dirs, path)
    /\ \A p \in FProcs : Len(fproc[p].probes) <= MaxProbes
    /\ files' = unlink(files, path)
    /\ fproc' = [q \in FProcs |->
                    IF fproc[q].handle = "open" /\ fproc[q].dest = path
                    THEN [fproc[q] EXCEPT !.handle = "detached"]
                    ELSE fproc[q]]
    /\ UNCHANGED <<dirs, decompress, remote, cacheVars, resolveVars, mpVars, objVars>>

FileStepMP(p) ==
    \/ CallIsInCache(p)
    \/ CallFilepath(p)
    \/ CallDownloadTo(p, "None")
    \/ IicExists(p)
    \/ IicStat(p)
    \/ IicUnlink(p)
    \/ FpStart(p)
    \/ FpExt(p)
    \/ FpAfterDownload(p)
    \/ DlStart(p)
    \/ DlResolve(p, remote.url)
    \/ DlPath(p)
    \/ DlAfterIic(p)
    \/ DlDir(p)
    \/ DlGet(p, "200")
    \/ DlOpen(p)
    \/ DlWrite(p, FALSE)
    \/ \E header \in {"absent", "ok"} : DlMtime(p, header)
    \/ End(p)

NextFileMP == \E p \in FProcs : FileStepMP(p)

SpecFileMP == InitFileMP /\ [][NextFileMP]_vars

(***************************************************************************)
(* SpecFileLive: one process calls downloadTo again and again; a host can  *)
(* accept a request and never answer.  No request of the code carries a    *)
(* timeout, so nothing ends the wait.  The process takes its next step     *)
(* whenever it has one.                                                    *)
(***************************************************************************)
RequestPcs == {"dl_resolve", "dl_get", "dl_head", "dl_get2", "dlc_get"}

\* requests.get / requests.head / http_session.get without timeout=, to a host
\* that accepts the request and never answers
NetHang(p) ==
    LET P == fproc[p]
        method == IF P.pc = "dl_resolve" THEN "RESOLVE" ELSE IF P.pc = "dl_head" THEN "HEAD" ELSE "GET"
        url == IF P.pc = "dl_resolve" THEN <<>>
               ELSE IF P.pc = "dl_head" THEN P.url \o <<COMPRESSED_DOT_FILE_EXTENSIONS[P.exti]>>
               ELSE P.url
    IN /\ P.pc \in RequestPcs
       /\ fproc' = [fproc EXCEPT ![p] = [P EXCEPT !.net = Append(@, Request(method, url)), !.pc = "waiting"]]
       /\ UNCHANGED <<files, dirs, decompress, remote, cacheVars, resolveVars, mpVars, objVars>>

FileStepLive(p) ==
    \/ CallDownloadTo(p, "None")
    \/ DlStart(p)
    \/ \E answer \in RemoteUrls \cup {<<>>} : DlResolve(p, answer)
    \/ DlPath(p)
    \/ IicExists(p)
    \/ IicStat(p)
    \/ IicUnlink(p)
    \/ DlAfterIic(p)
    \/ FpStart(p)
    \/ DlDir(p)
    \/ \E outcome \in {"200", "404", "500", "ConnectionError",
                       "ConnectionError: HTTPConnectionPool: Max retries exceeded with url",
                       "ConnectionError: HTTPSConnectionPool: Max retries exceeded with url"} : DlGet(p, outcome)
    \/ \E status \in {"200", "404"} : DlHead(p, status)
    \/ \E outcome \in {"200", "404", "500", "ConnectionError"} : DlGet2(p, outcome)
    \/ \E outcome \in {"200", "404", "500", "ConnectionError"} : DlcGet(p, outcome)
    \/ DlOpen(p)
    \/ \E fail \in BOOLEAN : DlWrite(p, fail)
    \/ \E header \in {"absent", "ok", "bad"} : DlMtime(p, header)
    \/ End(p)
    \/ NetHang(p)

NextFileLive == FileStepLive("p1")

SpecFileLive == InitFile /\ [][NextFileLive]_vars /\ WF_vars(NextFileLive)

(***************************************************************************)
(* SpecFileDir: one process calls downloadTo, with and without a path, in  *)
(* every state of the two directories: a directory, missing, or a broken   *)
(* symbolic link.                                                          *)
(***************************************************************************)
InitFileDir ==
    /\ dbfile = NoFile
    /\ constructed = FALSE
    /\ hist = <<>>
    /\ ResolveIdle
    /\ MPIdle
    /\ ObjIdle
    /\ fproc = [p \in FProcs |-> NewObject(TRUE)]
    /\ files = {}
    /\ dirs \in [Dirs -> {"dir", "missing", "broken_link"}]
    /\ remote \in {r \in [url : RemoteUrls, at : RemoteNames \cup {<<>>}] :
                       r.at = <<>> \/ r.at = r.url \/ \E ext \in Exts : r.at = r.url \o <<ext>>}
    /\ decompress \in BOOLEAN

FileStepDir(p) ==
    \/ \E path \in {"None", "other"} : CallDownloadTo(p, path)
    \/ DlStart(p)
    \/ \E answer \in RemoteUrls \cup {<<>>} : DlResolve(p, answer)
    \/ DlPath(p)
    \/ IicExists(p)
    \/ IicStat(p)
    \/ IicUnlink(p)
    \/ DlAfterIic(p)
    \/ FpStart(p)
    \/ DlDir(p)
    \/ \E outcome \in {"200", "404", "500", "ConnectionError",
                       "ConnectionError: HTTPConnectionPool: Max retries exceeded with url",
                       "ConnectionError: HTTPSConnectionPool: Max retries exceeded with url"} : DlGet(p, outcome)
    \/ \E status \in {"200", "404"} : DlHead(p, status)
    \/ \E outcome \in {"200", "404", "500", "ConnectionError"} : DlGet2(p, outcome)
    \/ \E outcome \in {"200", "404", "500", "ConnectionError"} : DlcGet(p, outcome)
    \/ DlOpen(p)
    \/ \E fail \in BOOLEAN : DlWrite(p, fail)
    \/ \E header \in {"absent", "ok", "bad"} : DlMtime(p, header)
    \/ End(p)

NextFileDir == FileStepDir("p1")

SpecFileDir == InitFileDir /\ [][NextFileDir]_vars

\* SpecFileRm: the same, and other users of the directory remove files
NextFileRm ==
    \/ \E p \in FProcs : FileStepMP(p)
    \/ \E f \in files : EnvRemoveMP(f.path)

SpecFileRm == InitFileMP /\ [][NextFileRm]_vars

(***************************************************************************)
(* SpecMgr: cache managers and response caches on root directories.  A     *)
(* root path is a directory, a directory that is not writable, a regular   *)
(* file, a symbolic link whose target is gone, or is missing.              *)
(***************************************************************************)
\* "home" is $HOME/.scidd_cache, the root of the default instances
RootPaths == {"home", "r1"}

Kinds == {"missing", "dir", "readonly_dir", "file", "broken_link"}

\* the default manager (the class attribute _default_instance) and another
Mgrs == {"default", "m1"}

\* pathlib.Path.exists (follows links)
path_exists(fs, path) == fs[path] \in {"dir", "readonly_dir", "file"}

\* path.is_symlink() and not os.path.exists(os.readlink(path)): the text of
\* the link is looked up from the working directory of the process
broken_link_found(c, fs, path) == fs[path] = "broken_link" /\ ~c.cwdHit

\* sqlite3.connect(path / name) opens or creates the file
can_connect(c, fs, path) == fs[path] = "dir" \/ (fs[path] = "readonly_dir" /\ c.dbAt[path])

\* LocalAPICache.__init__(path) with _initialize_database
LocalAPICache_init(c, path) ==
    LET fs1 == IF ~path_exists(c.fs, path) /\ c.fs[path] = "missing"
               THEN [c.fs EXCEPT ![path] = "dir"] ELSE c.fs
        c1 == [c EXCEPT !.fs = fs1]
    IN IF broken_link_found(c, fs1, path) THEN [c |-> c1, res |-> "Exception"]
       ELSE IF ~can_connect(c, fs1, path) THEN [c |-> c1, res |-> "NameError"]
       ELSE [c |-> [c1 EXCEPT !.dbAt[path] = TRUE], res |-> "ok"]

\* SciDDCacheManager.defaultCache()
SciDDCacheManager_defaultCache(c) ==
    IF c.path["default"] = "none" THEN [c EXCEPT !.path["default"] = "home"] ELSE c

\* LocalAPICache.defaultCache()
LocalAPICache_defaultCache(c) ==
    LET c1 == SciDDCacheManager_defaultCache(c)
        made == LocalAPICache_init(c1, c1.path["default"])
    IN IF c.defLapi # "none" THEN [c |-> c, res |-> "ok"]
       ELSE IF made.res # "ok" THEN made
       ELSE [c |-> [made.c EXCEPT !.defLapi = c1.path["default"]], res |-> "ok"]

\* a call on the managers ends
CmDone(c, op, who, arg, res, out) ==
    [c EXCEPT !.op = op, !.who = who, !.arg = arg, !.res = res, !.out = out]

InitMgr ==
    /\ dbfile = NoFile
    /\ constructed = FALSE
    /\ hist = <<>>
    /\ ResolveIdle
    /\ MPIdle
    /\ FileIdle
    /\ sd = <<>>
    /\ CallIdle
    /\ \E fs \in [RootPaths -> Kinds], dbAt \in [RootPaths -> BOOLEAN], cwdHit \in BOOLEAN :
          /\ \A r \in RootPaths : dbAt[r] => fs[r] \in {"dir", "readonly_dir"}
          /\ cm = [fs |-> fs, dbAt |-> dbAt, cwdHit |-> cwdHit,
                   path |-> [m \in Mgrs |-> "none"], lapi |-> [m \in Mgrs |-> "unset"],
                   defLapi |-> "none", op |-> "none", who |-> "none", arg |-> "none",
                   res |-> "-", out |-> "none"]

\* SciDDCacheManager(path=...)
NewManager(m, path) ==
    /\ m # "default"
    /\ cm.path[m] = "none"
    /\ cm' = CmDone([cm EXCEPT !.path[m] = path], "SciDDCacheManager", m, path, "ok", "none")
    /\ UNCHANGED <<sd, callVars, cacheVars, resolveVars, mpVars, fileVars>>

\* SciDDCacheManager.defaultCache()
DefaultCache ==
    /\ cm' = CmDone(SciDDCacheManager_defaultCache(cm), "defaultCache", "default", "none", "ok", "none")
    /\ UNCHANGED <<sd, callVars, cacheVars, resolveVars, mpVars, fileVars>>

\* manager.path = new_path
SetPath(m, new_path) ==
    LET made == IF cm.fs[new_path] = "missing" THEN [cm EXCEPT !.fs[new_path] = "dir"] ELSE cm
        res == IF cm.fs[new_path] = "broken_link" THEN "FileExistsError"
               ELSE IF made.fs[new_path] # "dir" THEN "Exception"
               ELSE "ok"
    IN /\ cm.path[m] # "none"
       /\ cm' = CmDone(IF res = "ok" THEN [made EXCEPT !.path[m] = new_path] ELSE made,
                       "path.setter", m, new_path, res, "none")
       /\ UNCHANGED <<sd, callVars, cacheVars, resolveVars, mpVars, fileVars>>

\* LocalAPICache(path=...)
NewLocalAPICache(path) ==
    LET made == LocalAPICache_init(cm, path)
    IN /\ cm' = CmDone(made.c, "LocalAPICache", "none", path, made.res, "none")
       /\ UNCHANGED <<sd, callVars, cacheVars, resolveVars, mpVars, fileVars>>

\* manager.localAPICache
GetLocalAPICache(m) ==
    LET made == LocalAPICache_defaultCache(cm)
    IN /\ cm.path[m] # "none"
       /\ cm' = IF cm.lapi[m] # "unset"
                THEN CmDone(cm, "localAPICache", m, "none", "ok", cm.lapi[m])
                ELSE IF made.res # "ok"
                THEN CmDone(made.c, "localAPICache", m, "none", made.res, "none")
                ELSE CmDone([made.c EXCEPT !.lapi[m] = made.c.defLapi],
                            "localAPICache", m, "none", "AttributeError", "none")
       /\ UNCHANGED <<sd, callVars, cacheVars, resolveVars, mpVars, fileVars>>

NextMgr ==
    \/ \E m \in Mgrs, path \in RootPaths : NewManager(m, path)
    \/ DefaultCache
    \/ \E m \in Mgrs, path \in RootPaths : SetPath(m, path)
    \/ \E path \in RootPaths : NewLocalAPICache(path)
    \/ \E m \in Mgrs : GetLocalAPICache(m)

SpecMgr == InitMgr /\ [][NextMgr]_vars

(***************************************************************************)
(* SpecId: one identifier object (scidd.py, class SciDD, with the filename *)
(* and pathWithinCache properties of SciDDFileResource).  A string is a    *)
(* sequence of tokens, each standing for a piece of text without the       *)
(* characters of the other tokens: "scidd:" "/" "astro" "#" and "x".       *)
(* Identifiers that begin with scidd:/astro are handed by __new__ to the   *)
(* scidd.astro package, and the object is followed no further.             *)
(*   reads       reads of url since the url was last assigned               *)
(*   calls       resolver invocations in these reads                        *)
(*   reassigned  the scidd setter has been used                            *)
(***************************************************************************)
IdTokens == {"scidd:", "/", "astro", "x", "#"}

MaxIdLen == 4           \* tokens of the string an identifier is made from

MaxReads == 3           \* reads of url between two assignments to it

IdStrings(n) == UNION {[1..k -> IdTokens] : k \in 0..n}

SCHEME_PREFIX == <<"scidd:", "/">>

ASTRO_PREFIX == <<"scidd:", "/", "astro">>

NoneValue == <<"None">>

\* str.startswith
startswith(s, prefix) ==
    /\ Len(s) >= Len(prefix)
    /\ SubSeq(s, 1, Len(prefix)) = prefix

\* t in s
contains(s, t) == \E i \in 1..Len(s) : s[i] = t

\* str.find, counted from 1; 0 when t is not in s
find(s, t) ==
    IF contains(s, t)
    THEN CHOOSE i \in 1..Len(s) : s[i] = t /\ \A j \in 1..(i - 1) : s[j] # t
    ELSE 0

\* str.split(t): the list of the parts of s between the occurrences of t
RECURSIVE split(_, _)
split(s, t) ==
    LET i == find(s, t)
    IN IF i = 0 THEN <<s>>
       ELSE <<SubSeq(s, 1, i - 1)>> \o split(SubSeq(s, i + 1, Len(s)), t)

\* t.join(parts)
RECURSIVE join(_, _)
join(parts, t) ==
    IF Len(parts) = 0 THEN <<>>
    ELSE IF Len(parts) = 1 THEN parts[1]
    ELSE parts[1] \o <<t>> \o join(Tail(parts), t)

\* str.replace('scidd:', '')
replace_scheme(s) == SelectSeq(s, LAMBDA c : c # "scidd:")

\* os.path.os_path_basename
os_path_basename(s) == LET parts == split(s, "/") IN parts[Len(parts)]

\* str(pathlib.Path(s).parent).lstrip("/")
parent_lstrip(s) ==
    LET comps == SelectSeq(split(s, "/"), LAMBDA c : c # <<>>)
        absolute == startswith(s, <<"/">>)
    IN IF Len(comps) <= 1
       THEN IF absolute THEN <<>> ELSE <<".">>
       ELSE join(SubSeq(comps, 1, Len(comps) - 1), "/")

\* the cache managers an identifier is asked about: its own (self.cache) and
\* another one
Caches == {"cache", "other"}

\* _path_within_cache is the dictionary keyed by cache manager (NoneValue: no
\* entry); computed counts, per manager, the runs of the default algorithm
NewSciDD(raw, resolver) ==
    [pc |-> "new", raw |-> raw, resolver |-> resolver, cls |-> "-",
     _scidd |-> NoneValue, _url |-> NoneValue, _filename |-> NoneValue,
     _path_within_cache |-> [c \in Caches |-> NoneValue],
     computed |-> [c \in Caches |-> 0],
     reads |-> 0, calls |-> 0, reassigned |-> FALSE,
     op |-> "none", arg |-> NoneValue, res |-> "-", out |-> NoneValue]

\* a call on the identifier ends
SdDone(o, op, arg, res, out) ==
    [o EXCEPT !.op = op, !.arg = arg, !.res = res, !.out = out]

\* SciDD.__new__: the class that is instantiated
SciDD_new(sci_dd) ==
    IF startswith(sci_dd, ASTRO_PREFIX) THEN "scidd.astro" ELSE "SciDD"

\* a validation that accepts every string
SciDD_isValid_any(s) == TRUE

\* SciDD.isValid
SciDD_isValid(s) == startswith(s, SCHEME_PREFIX)

\* SciDD.__init__
SciDD_init(o) ==
    IF o.raw = NoneValue
    THEN SdDone([o EXCEPT !.pc = "failed", !.cls = "SciDD"], "SciDD", o.raw, "ValueError", NoneValue)
    ELSE LET made == [o EXCEPT !.cls = "SciDD", !._scidd = o.raw, !._url = NoneValue]
         IN IF ~SciDD_isValid(made._scidd)
            THEN SdDone([made EXCEPT !.pc = "failed"], "SciDD", o.raw, "ValueError", NoneValue)
            ELSE SdDone([made EXCEPT !.pc = "made"], "SciDD", o.raw, "ok", NoneValue)

\* a string form that leaves the scheme out
SciDD_str_noscheme(o) == replace_scheme(o._scidd)

\* SciDD.__str__
SciDD_str(o) == o._scidd

\* SciDD.path
SciDD_path(o) == replace_scheme(SciDD_str(o))

\* a url getter that asks the resolver on every read
SciDD_url_nomemo(o, answer) ==
    IF ~o.resolver
    THEN SdDone(o, "url", NoneValue, "NoResolverAssignedException", NoneValue)
    ELSE IF answer = NoneValue
    THEN SdDone([o EXCEPT !.calls = @ + 1], "url", NoneValue, "ResolverError", NoneValue)
    ELSE SdDone([o EXCEPT !.calls = @ + 1, !._url = answer], "url", NoneValue, "ok", answer)

\* SciDD.url (getter); the resolver answers with a url or raises (NoneValue)
SciDD_url(o, answer) ==
    IF o._url # NoneValue THEN SdDone(o, "url", NoneValue, "ok", o._url)
    ELSE IF ~o.resolver
    THEN SdDone(o, "url", NoneValue, "NoResolverAssignedException", NoneValue)
    ELSE IF answer = NoneValue
    THEN SdDone([o EXCEPT !.calls = @ + 1], "url", NoneValue, "ResolverError", NoneValue)
    ELSE SdDone([o EXCEPT !.calls = @ + 1, !._url = answer], "url", NoneValue, "ok", answer)

\* SciDD.fragment (getter)
SciDD_fragment(o) ==
    IF contains(o._scidd, "#") THEN split(o._scidd, "#")[2] ELSE NoneValue

\* SciDD.fragment (setter): the call of a SciDD method on the string, or the
\* call of str.join with two arguments, raises before _scidd is assigned
SciDD_fragment_set(o, new_fragment) ==
    IF contains(o._scidd, "#")
    THEN SdDone(o, "fragment.setter", new_fragment, "AttributeError", NoneValue)
    ELSE SdDone(o, "fragment.setter", new_fragment, "TypeError", NoneValue)

\* SciDDFileResource.filename (getter)
SciDDFileResource_filename(o) ==
    IF o._filename # NoneValue THEN SdDone(o, "filename", NoneValue, "ok", o._filename)
    ELSE LET path == split(SciDD_path(o), ";")[1]
         IN SdDone([o EXCEPT !._filename = os_path_basename(path)], "filename", NoneValue, "ok", os_path_basename(path))

\* re.search("^([^/]+)/file/(.+)", p) and the replacement by its two groups
remove_file_component(p) ==
    LET comps == split(p, "/")
    IN IF Len(comps) >= 3 /\ comps[1] # <<>> /\ comps[2] = <<"file">>
          /\ join(SubSeq(comps, 3, Len(comps)), "/") # <<>>
       THEN comps[1] \o <<"/">> \o join(SubSeq(comps, 3, Len(comps)), "/")
       ELSE p

\* SciDDCacheManager.pathWithinCache of the manager `cache`
SciDDCacheManager_pathWithinCache(o, cache) ==
    IF o._path_within_cache[cache] # NoneValue
    THEN SdDone(o, "cache.pathWithinCache", <<cache>>, "ok", o._path_within_cache[cache])
    ELSE LET p == remove_file_component(parent_lstrip(SciDD_path(o)))
         IN SdDone([o EXCEPT !._path_within_cache[cache] = p, !.computed[cache] = @ + 1],
                   "cache.pathWithinCache", <<cache>>, "ok", p)

\* a lookup that asks the cache manager on every call
SciDDFileResource_pathWithinCache_nomemo(o, cache) ==
    LET asked == SciDDCacheManager_pathWithinCache(
                     [o EXCEPT !._path_within_cache[cache] = NoneValue], cache)
    IN SdDone(asked, "pathWithinCache", <<cache>>, "ok", asked.out)

\* SciDDFileResource.pathWithinCache(cache)
SciDDFileResource_pathWithinCache(o, cache) ==
    IF o._path_within_cache[cache] # NoneValue
    THEN SdDone(o, "pathWithinCache", <<cache>>, "ok", o._path_within_cache[cache])
    ELSE LET asked == SciDDCacheManager_pathWithinCache(o, cache)
             path == asked.out
         IN IF startswith(path, <<"/">>)
            THEN SdDone([asked EXCEPT !._path_within_cache[cache] = path],
                        "pathWithinCache", <<cache>>, "AssertionError", NoneValue)
            ELSE SdDone([asked EXCEPT !._path_within_cache[cache] = path],
                        "pathWithinCache", <<cache>>, "ok", path)

InitId ==
    /\ dbfile = NoFile
    /\ constructed = FALSE
    /\ hist = <<>>
    /\ ResolveIdle
    /\ MPIdle
    /\ FileIdle
    /\ cm = <<>>
    /\ CallIdle
    /\ \E raw \in IdStrings(MaxIdLen) \cup {NoneValue}, resolver \in BOOLEAN :
          sd = NewSciDD(raw, resolver)

\* SciDD(sci_dd=raw, resolver=resolver)
MakeSciDD ==
    /\ sd.pc = "new"
    /\ sd' = IF sd.raw # NoneValue /\ SciDD_new(sd.raw) = "scidd.astro"
             THEN SdDone([sd EXCEPT !.pc = "external", !.cls = "scidd.astro"],
                         "SciDD", sd.raw, "dispatched", NoneValue)
             ELSE SciDD_init(sd)
    /\ UNCHANGED <<cm, callVars, cacheVars, resolveVars, mpVars, fileVars>>

\* str(s)
Str ==
    /\ sd.pc = "made"
    /\ sd' = SdDone(sd, "__str__", NoneValue, "ok", SciDD_str(sd))
    /\ UNCHANGED <<cm, callVars, cacheVars, resolveVars, mpVars, fileVars>>

\* s.scidd = new_id
SetScidd(new_id) ==
    /\ sd.pc = "made"
    /\ sd' = IF new_id = NoneValue
             THEN SdDone(sd, "scidd.setter", new_id, "ValueError", NoneValue)
             ELSE SdDone([sd EXCEPT !._scidd = new_id, !.reassigned = TRUE],
                         "scidd.setter", new_id, "ok", NoneValue)
    /\ UNCHANGED <<cm, callVars, cacheVars, resolveVars, mpVars, fileVars>>

\* s.url
GetUrl(answer) ==
    /\ sd.pc = "made"
    /\ sd.reads < MaxReads
    /\ sd' = SciDD_url([sd EXCEPT !.reads = @ + 1], answer)
    /\ UNCHANGED <<cm, callVars, cacheVars, resolveVars, mpVars, fileVars>>

\* s.url = new_value
SetUrl(new_value) ==
    /\ sd.pc = "made"
    /\ sd' = SdDone([sd EXCEPT !._url = new_value, !.reads = 0, !.calls = 0], "url.setter", new_value, "ok", NoneValue)
    /\ UNCHANGED <<cm, callVars, cacheVars, resolveVars, mpVars, fileVars>>

\* s.fragment
GetFragment ==
    /\ sd.pc = "made"
    /\ sd' = SdDone(sd, "fragment", NoneValue, "ok", SciDD_fragment(sd))
    /\ UNCHANGED <<cm, callVars, cacheVars, resolveVars, mpVars, fileVars>>

\* s.fragment = new_fragment
SetFragment(new_fragment) ==
    /\ sd.pc = "made"
    /\ sd' = SciDD_fragment_set(sd, new_fragment)
    /\ UNCHANGED <<cm, callVars, cacheVars, resolveVars, mpVars, fileVars>>

\* s.filename
GetFilename ==
    /\ sd.pc = "made"
    /\ sd' = SciDDFileResource_filename(sd)
    /\ UNCHANGED <<cm, callVars, cacheVars, resolveVars, mpVars, fileVars>>

\* s.pathWithinCache(cache)
GetPathWithinCache(cache) ==
    /\ sd.pc = "made"
    /\ sd' = SciDDFileResource_pathWithinCache(sd, cache)
    /\ UNCHANGED <<cm, callVars, cacheVars, resolveVars, mpVars, fileVars>>

UrlAnswers == {<<"resolved">>, NoneValue}

UrlValues == {<<"assigned">>, NoneValue}

Fragments == {<<"x">>, <<"astro">>}

\* the strings assigned to the scidd property: one without the scheme prefix,
\* one with it, and a value that is not a string
NewIds == {<<"x">>, SCHEME_PREFIX \o <<"x">>, NoneValue}

NextId ==
    \/ MakeSciDD
    \/ Str
    \/ \E new_id \in NewIds : SetScidd(new_id)
    \/ \E answer \in UrlAnswers : GetUrl(answer)
    \/ \E new_value \in UrlValues : SetUrl(new_value)
    \/ GetFragment
    \/ \E new_fragment \in Fragments : SetFragment(new_fragment)
    \/ GetFilename
    \/ GetPathWithinCache("cache")

SpecId == InitId /\ [][NextId]_vars

(***************************************************************************)
(* Claims about the file cache (SpecFile).  They are read where a call has *)
(* ended (pc = "end"): files0, filename0, url0 and filepath0 are what the  *)
(* call began with, net and probes what it did.                            *)
(***************************************************************************)
Ended(p, op) == fproc[p].pc = "end" /\ fproc[p].op = op /\ fproc[p].res # "crash"

HasFile(fs, path) == \E f \in fs : f.path = path

\* a file that is there and is not empty
NonEmpty(fs, path) == HasFile(fs, path) /\ FileAt(fs, path).size > 0

ZeroLength(fs, path) == HasFile(fs, path) /\ FileAt(fs, path).size = 0

\* a file left by a download that was cut short after it opened the file
Partial(fs, path) == HasFile(fs, path) /\ FileAt(fs, path).size < BodyChunks

\* the expected cache path of the identifier when the call began
Expected0(P) == <<"cache", P.filename0>>

\* the paths filepath looks at, in the order of the claim
ProbeOrder(expected) ==
    <<expected>> \o [i \in DOMAIN COMPRESSED_DOT_FILE_EXTENSIONS |->
                        <<expected[1], expected[2] \o <<COMPRESSED_DOT_FILE_EXTENSIONS[i]>> >>]

\* C1: isInCache returns true only if the file at the expected cache path
\* exists with non-zero size (and then changes nothing); a zero-length file
\* there is deleted and the answer is false; with no file there the answer is
\* false and nothing changes.
C1_IsInCache ==
    \A p \in FProcs : Ended(p, "isInCache") =>
        LET P == fproc[p]
            full_path == Expected0(P)
        IN /\ P.res = "ok"
           /\ P.out \in {PyTrue, PyFalse}
           /\ P.out = PyTrue => (NonEmpty(P.files0, full_path) /\ files = P.files0)
           /\ ZeroLength(P.files0, full_path) =>
                  (P.out = PyFalse /\ ~HasFile(files, full_path) /\ files = unlink(P.files0, full_path))
           /\ ~HasFile(P.files0, full_path) => (P.out = PyFalse /\ files = P.files0)

C1_Witness ==
    \E p \in FProcs :
        /\ Ended(p, "isInCache")
        /\ ZeroLength(fproc[p].files0, Expected0(fproc[p]))
        /\ fproc[p].out = PyFalse
        /\ ~HasFile(files, Expected0(fproc[p]))

\* C2: a file left at the expected cache path by a download that was
\* interrupted after it opened the file, with any number of chunks written,
\* never passes as cached: the next isInCache returns false.
C2_PartialNeverCached ==
    \A p \in FProcs :
        (Ended(p, "isInCache") /\ Partial(fproc[p].files0, Expected0(fproc[p])))
            => fproc[p].out = PyFalse

\* C3: the filepath accessor, finding a zero-length file at the expected
\* cache path, does not return it as a hit: the file is purged and the
\* resource is downloaded.
C3_ZeroLengthNotAHit ==
    \A p \in FProcs :
        (Ended(p, "filepath") /\ fproc[p].filepath0 = <<>>
            /\ ZeroLength(fproc[p].files0, Expected0(fproc[p])))
            => /\ fproc[p].downloaded
               /\ fproc[p].res = "ok" => NonEmpty(files, fproc[p].out)

\* C4: filepath looks at the exact expected path, then at the same name with
\* .gz, .bz2, .zip, in this order, stops at the first that exists, and starts
\* a download only when none of the four exists; when the file is in the
\* cache (isInCache was true) it makes no resolver call and no network call.
C4_ProbeOrder ==
    \A p \in FProcs : Ended(p, "filepath") =>
        LET P == fproc[p]
            order == ProbeOrder(Expected0(P))
            n == Len(P.probes)
        IN /\ n <= Len(order)
           /\ P.probes = SubSeq(order, 1, n)
           /\ (P.filepath0 # <<>>) = (n = 0)
           /\ \A i \in 1..(n - 1) : ~HasFile(P.files0, order[i])
           /\ P.downloaded => (n = Len(order) /\ \A i \in 1..n : ~HasFile(P.files0, order[i]))
           /\ (n > 0 /\ ~P.downloaded) => (P.res = "ok" /\ P.out = P.probes[n] /\ HasFile(P.files0, P.out))
           /\ NonEmpty(P.files0, Expected0(P)) => (~P.downloaded /\ P.net = <<>> /\ P.res = "ok")

C4_Witness ==
    \E p \in FProcs :
        /\ Ended(p, "filepath")
        /\ Len(fproc[p].probes) = 3
        /\ fproc[p].out = ProbeOrder(Expected0(fproc[p]))[3]
        /\ HasFile(fproc[p].files0, ProbeOrder(Expected0(fproc[p]))[4])

\* C5: downloadTo for an identifier whose file is in the cache (a non-empty
\* file at the expected path) returns without any network access: no resolver
\* request, no HEAD and no GET, also when the url is not resolved yet.
C5_CachedNoNetwork ==
    \A p \in FProcs :
        (Ended(p, "downloadTo") /\ NonEmpty(fproc[p].files0, Expected0(fproc[p])))
            => (fproc[p].res = "ok" /\ fproc[p].net = <<>>)

(***************************************************************************)
(* Claims about the response cache (SpecCache).                            *)
(***************************************************************************)
IsCall(e, op) == e.op = op

HasEntry(f, key) == RowsFor(f, key) # {}

\* C6: set(k, v) followed by get(k) returns v, and a second set(k, v2)
\* followed by get(k) returns v2; the set leaves exactly one row for k.
C6_SetThenGet ==
    /\ \A i \in 1..(Len(hist) - 1) :
          (IsCall(hist[i], "set") /\ IsCall(hist[i + 1], "get") /\ hist[i + 1].key = hist[i].key)
              => (hist[i + 1].res = "ok" /\ hist[i + 1].out = hist[i].val)
    /\ (hist # <<>> /\ IsCall(Last(hist), "set"))
          => (Last(hist).res = "ok" /\ Cardinality(RowsFor(dbfile, Last(hist).key)) = 1)

C6_Witness ==
    /\ Len(hist) = 3
    /\ IsCall(hist[1], "set") /\ IsCall(hist[2], "set") /\ IsCall(hist[3], "get")
    /\ hist[2].key = hist[1].key /\ hist[3].key = hist[1].key
    /\ hist[2].val # hist[1].val
    /\ hist[3].res = "ok" /\ hist[3].out = hist[2].val

\* C7: get(k) on a key without an entry raises KeyError, returns no value,
\* and leaves the stored entries as they were.
C7_GetAbsent ==
    [][\A key \in Keys :
          (Get(key) /\ ~HasEntry(dbfile, key))
              => /\ Last(hist').res = "KeyError"
                 /\ Last(hist').out = <<>>
                 /\ dbfile'.rows = dbfile.rows]_vars

C7_Witness ==
    /\ Len(hist) >= 2
    /\ IsCall(hist[Len(hist) - 1], "set")
    /\ IsCall(Last(hist), "get")
    /\ Last(hist).key # hist[Len(hist) - 1].key
    /\ Last(hist).res = "KeyError"
    /\ dbfile.rows # {}

\* C10: with the database file missing or zero-length (from the start, or
\* deleted between two calls) the next get or set re-creates the schema and
\* completes normally: get raises KeyError, set stores the value.
Unusable(f) == ~f.exists \/ st_size(f) = 0

C10_SelfHealing ==
    [][/\ \A key \in Keys :
            (Get(key) /\ Unusable(dbfile))
                => /\ Last(hist').res = "KeyError"
                   /\ dbfile'.exists /\ dbfile'.meta /\ dbfile'.cache /\ dbfile'.metaRows = 1
       /\ \A key \in Keys, value \in Values :
            (Set(key, value) /\ Unusable(dbfile))
                => /\ Last(hist').res = "ok"
                   /\ dbfile'.exists /\ dbfile'.meta /\ dbfile'.cache /\ dbfile'.metaRows = 1
                   /\ sql_select(dbfile', key) = <<value>>]_vars

C10_Witness ==
    /\ Len(hist) >= 2
    /\ hist[Len(hist) - 1].op = "env_delete"
    /\ IsCall(Last(hist), "set") /\ Last(hist).res = "ok"
    /\ dbfile.exists /\ dbfile.cache /\ dbfile.metaRows = 1
    /\ sql_select(dbfile, Last(hist).key) = <<Last(hist).val>>

(***************************************************************************)
(* Claims about the metadata lookup (SpecResolve).                         *)
(***************************************************************************)
\* C9: with caching enabled and a cold cache directory, two sequential
\* resolutions of one query make exactly one network call and one cache
\* write in total; every later resolution makes no network call and returns
\* the cached JSON unchanged.
C9_OneNetworkCall ==
    useCache =>
        \A k \in Keys :
            /\ cacheWrites[k] = (IF resolved[k] >= 1 THEN 1 ELSE 0)
            /\ netCalls[k] - netFailed[k] = cacheWrites[k]
            /\ (netFailed[k] = 0 /\ resolved[k] >= 2) => netCalls[k] = 1
            /\ resolved[k] >= 1 =>
                  /\ sql_select(dbfile, k) = <<json_dumps(firstOut[k])>>
                  /\ lastOut[k] = json_loads(sql_select(dbfile, k)[1])
                  /\ lastOut[k] = firstOut[k]

C9_Witness ==
    /\ useCache
    /\ \E k \in Keys :
          /\ resolved[k] = 3 /\ netCalls[k] = 1 /\ cacheWrites[k] = 1
          /\ lastOut[k] # <<>> /\ lastOut[k] = firstOut[k]

(***************************************************************************)
(* Claims about processes sharing the cache directory (SpecMP).            *)
(***************************************************************************)
\* C8: whatever sets one or several processes have issued, the cache table
\* holds at most one row per key, and it is the row of the last completed
\* set for that key.
C8_LastWriteWins ==
    \A k \in Keys :
        /\ Cardinality(RowsFor(dbfile, k)) <= 1
        /\ lastSet[k] # NotYet => sql_select(dbfile, k) = <<lastSet[k]>>

\* the same, of the rows that are there: a row never holds an older value
C8_NoStaleRow ==
    \A k \in Keys :
        /\ Cardinality(RowsFor(dbfile, k)) <= 1
        /\ (lastSet[k] # NotYet /\ HasEntry(dbfile, k)) => sql_select(dbfile, k) = <<lastSet[k]>>

\* C11: with processes interleaving first-time initialisation, get and set on
\* one cache directory, no operation fails because of the other process (a get
\* of a key without entry still reports KeyError), no committed entry is lost,
\* and the metadata table holds exactly one row.
C11_NoInterference ==
    /\ \A p \in Procs : proc[p].res \in {"-", "ok", "KeyError"}
    /\ \A k \in Keys : lastSet[k] # NotYet => HasEntry(dbfile, k)
    /\ ((\A p \in Procs : proc[p].pc = "idle") /\ dbfile.meta) => dbfile.metaRows = 1

\* C12: the purge of a zero-length file by isInCache in one process never
\* removes the file another process is downloading (has open for writing), and
\* a filepath access whose download reported success does not end with the
\* file-missing error of the check after the download.
C12_PurgeSparesDownload ==
    \A p \in FProcs :
        /\ fproc[p].handle # "detached"
        /\ ~(Ended(p, "filepath") /\ fproc[p].downloaded /\ fproc[p].res = "NotImplementedError")

\* C13: when the url of the resource has a compressed extension and
\* decompression is enabled, a downloadTo that got the file from the server
\* (status 200, a well-formed Last-Modified header if any) completes without
\* error, returns the path with the uncompressed filename, and the file there
\* holds the whole decompressed payload.
C13_DecompressedDownload ==
    \A p \in FProcs :
        LET P == fproc[p]
            path == <<P.dir, P.filename0>>
        IN (/\ Ended(p, "downloadTo")
            /\ decompress
            /\ IsCompressedExt(splitext(P.o_url))
            /\ P.mode = "decomp"
            /\ P.status = "200"
            /\ P.res # "ValueError")
           => /\ P.res = "ok"
              /\ P.out = path
              /\ HasFile(files, path)
              /\ FileAt(files, path).size = BodyChunks
              /\ FileAt(files, path).data = "raw"

\* the HEAD requests of a call, in the order they were made
Heads(P) == SelectSeq(P.net, LAMBDA r : r.m = "HEAD")

\* the call probed the compressed extensions and one probe was answered 200
FoundCompressed(P) ==
    /\ Heads(P) # <<>>
    /\ Last(Heads(P)).u = remote.at

\* C14: when the primary url answers 404 and a HEAD of url+ext answers 200,
\* downloadTo has probed the extensions in the order .gz, .bz2, .zip and
\* stopped at the first match, has logged a warning, and (the GET of that url
\* answered 200 and not cut, a well-formed Last-Modified header if any, the
\* download going to the cache directory) completes successfully with the file of that url, with decompression
\* enabled or disabled.
C14_CompressedFallback ==
    \A p \in FProcs :
        LET P == fproc[p]
            heads == Heads(P)
        IN (Ended(p, "downloadTo") /\ FoundCompressed(P))
           => /\ \A i \in DOMAIN heads : heads[i].u = P.o_url \o <<COMPRESSED_DOT_FILE_EXTENSIONS[i]>>
              /\ \A i \in DOMAIN heads : i < Len(heads) => heads[i].u # remote.at
              /\ P.warned
              /\ (P.arg = "None" /\ P.status = "200" /\ P.res \notin {"ConnectionError", "ValueError"})
                   => /\ P.res = "ok"
                      /\ HasFile(files, P.out)
                      /\ FileAt(files, P.out).size = BodyChunks

\* the same with decompression disabled: the compressed file is streamed to
\* the cache under its compressed name
C14_FallbackStreamed ==
    decompress \/ C14_CompressedFallback

\* the GET of the resolved url was answered 404 and no probe of a compressed
\* extension was answered 200
NotOnServer(P) ==
    /\ P.status = "404"
    /\ ~FoundCompressed(P)

\* C15: when the primary url answers 404 and no probe succeeds, downloadTo
\* fails with FileResourceCouldNotBeFound, whatever the extension of the url
\* and the decompression setting, and no file is left at the expected cache
\* path.
C15_NotFound ==
    \A p \in FProcs :
        LET P == fproc[p]
        IN (Ended(p, "downloadTo") /\ NotOnServer(P))
           => /\ P.res = "FileResourceCouldNotBeFound"
              /\ ~HasFile(files, Expected0(P))

\* the same for the streamed download (the url is not compressed, or
\* decompression is disabled)
C15_NotFoundStreamed ==
    \A p \in FProcs :
        LET P == fproc[p]
        IN (Ended(p, "downloadTo") /\ NotOnServer(P) /\ P.mode = "stream")
           => /\ P.res = "FileResourceCouldNotBeFound"
              /\ Len(Heads(P)) = Len(COMPRESSED_DOT_FILE_EXTENSIONS)
              /\ ~HasFile(files, Expected0(P))

\* C16: when downloadTo reported success and no file is at the path it
\* returned, the filepath access fails with the error of the check after the
\* download, the object has no memoised filepath, and nothing is requested
\* again.
C16_PostDownloadFileMissing ==
    [][\A p \in FProcs :
          (/\ fproc[p].pc = "fp_after_download"
           /\ fproc'[p] # fproc[p]
           /\ ~exists(files, dirs, fproc[p].ret))
          => /\ fproc'[p].pc = "end"
             /\ fproc'[p].res = "NotImplementedError"
             /\ fproc'[p].o_filepath = <<>>
             /\ fproc'[p].net = fproc[p].net]_vars

\* C17: whenever a filepath access returns a path, on the first access of an
\* object or on a later one, with other processes purging files in between, a
\* file is at that path at the moment of the return.
C17_ReturnedPathExists ==
    [][\A p \in FProcs :
          (/\ fproc[p].pc # "end"
           /\ fproc'[p].pc = "end"
           /\ fproc'[p].op = "filepath"
           /\ fproc'[p].res = "ok")
          => exists(files', dirs', fproc'[p].out)]_vars

\* the same for the accesses of an object that has no memoised path yet
C17_FirstAccess ==
    [][\A p \in FProcs :
          (/\ fproc[p].pc # "end"
           /\ fproc'[p].pc = "end"
           /\ fproc'[p].op = "filepath"
           /\ fproc'[p].res = "ok"
           /\ fproc'[p].filepath0 = <<>>
           /\ fproc[p].o_filepath = <<>>)
          => exists(files', dirs', fproc'[p].out)]_vars

\* the GET requests of a call, in the order they were made
Gets(P) == SelectSeq(P.net, LAMBDA r : r.m = "GET")

\* C18: no retries: within one call no request is made twice; there is at
\* most one GET of the primary url and at most one GET of a fallback url; a
\* HEAD probe is made only after the primary url answered 404, at most one for
\* each compressed extension, in their order.
C18_NoRetries ==
    \A p \in FProcs :
        LET P == fproc[p]
            net == P.net
            heads == Heads(P)
            gets == Gets(P)
        IN /\ \A i, j \in DOMAIN net : net[i] = net[j] => i = j
           /\ Len(gets) <= 2
           /\ \A i \in DOMAIN gets : i = 1 => gets[i].u = P.o_url
           /\ \A i \in DOMAIN gets : i = 2 => (heads # <<>> /\ gets[i].u = Last(heads).u)
           /\ Len(heads) <= Len(COMPRESSED_DOT_FILE_EXTENSIONS)
           /\ \A i \in DOMAIN heads : heads[i].u = P.o_url \o <<COMPRESSED_DOT_FILE_EXTENSIONS[i]>>
           /\ heads # <<>> => (gets # <<>> /\ remote.at # P.o_url /\ P.status # "-")

\* the longest sequence of requests: the primary url answered 404, the file
\* was found with the last extension and fetched from there
C18_Witness ==
    \E p \in FProcs :
        /\ Ended(p, "downloadTo")
        /\ Len(Heads(fproc[p])) = Len(COMPRESSED_DOT_FILE_EXTENSIONS)
        /\ Len(Gets(fproc[p])) = 2

\* C19: every network call is bounded by a timeout, so a url resolution or a
\* downloadTo that has begun eventually returns or raises, also when the host
\* accepts the request and never answers.
C19_EventuallyReturns ==
    \A p \in FProcs :
        (fproc[p].pc \notin {"idle", "end"}) ~> (fproc[p].pc = "end")

\* the same of the calls in which every request is answered
C19_ReturnsIfAnswered ==
    \A p \in FProcs :
        (fproc[p].pc \notin {"idle", "end"}) ~> (fproc[p].pc \in {"end", "waiting"})

\* the host of the download could not be connected to
ConnectFailed(P) ==
    P.status \in {"ConnectionError: HTTPConnectionPool: Max retries exceeded with url",
                  "ConnectionError: HTTPSConnectionPool: Max retries exceeded with url"}

\* C20: a failure to connect to the download host ends downloadTo with
\* InternetConnectionError, for http and https urls alike, never with a
\* generic or not-implemented error.
C20_ConnectionError ==
    \A p \in FProcs :
        (Ended(p, "downloadTo") /\ ConnectFailed(fproc[p]))
        => fproc[p].res = "InternetConnectionError"

\* the same for https urls
C20_Https ==
    \A p \in FProcs :
        (/\ Ended(p, "downloadTo")
         /\ fproc[p].status = "ConnectionError: HTTPSConnectionPool: Max retries exceeded with url")
        => fproc[p].res = "InternetConnectionError"

\* C21: setting the modification time is best-effort: a streamed download
\* whose body was written whole succeeds and returns the path of the complete
\* file, whether the response has no Last-Modified header, one that cannot be
\* parsed, or a good one.
C21_MtimeBestEffort ==
    \A p \in FProcs :
        LET P == fproc[p]
        IN (/\ Ended(p, "downloadTo")
            /\ P.mode = "stream"
            /\ P.status = "200"
            /\ P.written = BodyChunks)
           => /\ P.res = "ok"
              /\ P.out = P.dest
              /\ HasFile(files, P.dest)
              /\ FileAt(files, P.dest).size = BodyChunks

\* the same when the header is absent or well-formed
C21_GoodOrNoHeader ==
    \A p \in FProcs :
        LET P == fproc[p]
        IN (/\ Ended(p, "downloadTo")
            /\ P.mode = "stream"
            /\ P.status = "200"
            /\ P.written = BodyChunks
            /\ P.res # "ValueError")
           => /\ P.res = "ok"
              /\ P.out = P.dest
              /\ HasFile(files, P.dest)
              /\ FileAt(files, P.dest).size = BodyChunks

\* the directory a downloadTo call is to download into
Target(P) == IF P.arg = "None" THEN "cache" ELSE P.arg

\* C22: with a broken symbolic link at the target directory path downloadTo
\* fails, and has requested nothing from the download host; a call that went
\* on to the download has an existing directory there (it was accepted, or
\* made when missing), and the broken-link error is raised for a broken link
\* only.
C22_BrokenLink ==
    \A p \in FProcs :
        LET P == fproc[p]
        IN Ended(p, "downloadTo")
           => /\ dirs[Target(P)] = "broken_link"
                   => (P.res # "ok" /\ Gets(P) = <<>> /\ Heads(P) = <<>>)
              /\ Gets(P) # <<>> => dirs[Target(P)] = "dir"
              /\ P.res = "Exception" => dirs[Target(P)] = "broken_link"

\* C22, amended: the same for the calls that do not find the file in the cache
\* (a call that finds it returns the cached path before it looks at the target
\* directory)
C22_NotCached ==
    \A p \in FProcs :
        LET P == fproc[p]
        IN (Ended(p, "downloadTo") /\ ~NonEmpty(P.files0, Expected0(P)))
           => /\ dirs[Target(P)] = "broken_link"
                   => (P.res # "ok" /\ Gets(P) = <<>> /\ Heads(P) = <<>>)
              /\ Gets(P) # <<>> => dirs[Target(P)] = "dir"
              /\ P.res = "Exception" => dirs[Target(P)] = "broken_link"

C22_Witness ==
    \E p \in FProcs :
        /\ Ended(p, "downloadTo")
        /\ ~NonEmpty(fproc[p].files0, Expected0(fproc[p]))
        /\ dirs[Target(fproc[p])] = "broken_link"
        /\ fproc[p].res = "Exception"

(***************************************************************************)
(* Claims about the cache managers (SpecMgr).                              *)
(***************************************************************************)
\* the last call made the response cache on a root that is a broken link
OnBrokenLink == cm.op = "LocalAPICache" /\ cm.fs[cm.arg] = "broken_link"

\* C23: creating the response cache on a cache-root path that is a symbolic
\* link whose target does not exist fails with the fatal broken-link error and
\* creates no database file.
C23_BrokenCacheLink ==
    OnBrokenLink => (cm.res = "Exception" /\ ~cm.dbAt[cm.arg])

\* it is never silently ignored: the construction fails one way or another,
\* and no database file is made
C23_NeverIgnored ==
    OnBrokenLink => (cm.res # "ok" /\ ~cm.dbAt[cm.arg])

\* C24: the root of every cache manager, however it was set (constructor,
\* default instance, path setter), exists, is a real directory and is
\* writable; and setting the root to a directory that exists succeeds.
C24_RootIsDirectory ==
    /\ \A m \in Mgrs : cm.path[m] # "none" => cm.fs[cm.path[m]] = "dir"
    /\ (cm.op = "path.setter" /\ cm.fs[cm.arg] = "dir")
           => (cm.res = "ok" /\ cm.path[cm.who] = cm.arg)

\* the same for the roots set by the path setter
C24_SetterChecks ==
    /\ (cm.op = "path.setter" /\ cm.res = "ok")
           => (cm.path[cm.who] = cm.arg /\ cm.fs[cm.arg] = "dir")
    /\ (cm.op = "path.setter" /\ cm.fs[cm.arg] = "dir")
           => (cm.res = "ok" /\ cm.path[cm.who] = cm.arg)

\* C25: the localAPICache accessor of a manager with root R succeeds on every
\* access, the first included, and returns a response cache whose database
\* file lies under R; managers with different roots never share one database
\* file.
C25_LocalAPICacheUnderRoot ==
    /\ cm.op = "localAPICache"
           => (cm.res = "ok" /\ cm.out = cm.path[cm.who])
    /\ \A m1 \in Mgrs, m2 \in Mgrs :
           (/\ cm.lapi[m1] # "unset"
            /\ cm.lapi[m2] # "unset"
            /\ cm.path[m1] # cm.path[m2]) => cm.lapi[m1] # cm.lapi[m2]

\* what the accessor does return: the one default response cache, whose
\* database file was made under the root of the default manager
C25_DefaultCacheReturned ==
    (cm.op = "localAPICache" /\ cm.res = "ok")
        => (cm.out = cm.defLapi /\ cm.out # "none" /\ cm.dbAt[cm.out])

C27_RoundTrip ==
    (sd.op = "__str__" /\ ~sd.reassigned) => sd.out = sd.raw

\* str(s) was read after the three lookups were memoised
C27_Witness ==
    /\ sd.op = "__str__"
    /\ ~sd.reassigned
    /\ sd.out = sd.raw
    /\ sd._url # NoneValue
    /\ sd._filename # NoneValue
    /\ sd._path_within_cache["cache"] # NoneValue
    /\ Len(sd.raw) = MaxIdLen

\* C28: in every state of an identifier, after any assignments to its
\* properties, its string form begins with the scheme prefix and, apart from
\* the fragment, equals the string it was constructed with.
C28_StringImmutable ==
    sd.pc = "made"
        => /\ startswith(sd._scidd, SCHEME_PREFIX)
           /\ split(sd._scidd, "#")[1] = split(sd.raw, "#")[1]

\* the string form changes in no other call than an assignment to scidd
C28_OnlySciddSetter ==
    [][(sd.pc = "made" /\ sd'._scidd # sd._scidd) => sd'.op = "scidd.setter"]_vars

\* C29: assigning a fragment succeeds and replaces the fragment: the string
\* becomes the part before any '#', then '#', then the new fragment, and the
\* fragment getter then returns the new fragment.
C29_FragmentReplaced ==
    sd.op = "fragment.setter"
        => /\ sd.res = "ok"
           /\ sd._scidd = split(sd._scidd, "#")[1] \o <<"#">> \o sd.arg
           /\ SciDD_fragment(sd) = sd.arg

\* what the assignment does: it raises and leaves the string as it was
C29_SetterRaises ==
    [][sd'.op = "fragment.setter"
          => /\ sd'._scidd = sd._scidd
             /\ sd'.res = IF contains(sd._scidd, "#") THEN "AttributeError" ELSE "TypeError"]_vars

\* C30: over any sequence of url reads of one identifier the resolver is
\* invoked at most once.
C30_AtMostOnce == sd.pc = "made" => sd.calls <= 1

\* C30, as amended: a read of url that finds it populated returns that value
\* without a resolver call; a read with no resolver and no value fails with
\* NoResolverAssigned and leaves url unpopulated; the resolver is invoked
\* only by a read that finds url unpopulated, and once it has returned a url
\* no later read of the sequence invokes it.
C30_NoRefetch ==
    [][(sd.pc = "made" /\ sd'.op = "url" /\ sd'.reads # sd.reads)
          => /\ sd._url # NoneValue
                   => (sd'.out = sd._url /\ sd'.res = "ok" /\ sd'.calls = sd.calls /\ sd'._url = sd._url)
             /\ (sd._url = NoneValue /\ ~sd.resolver)
                   => (sd'.res = "NoResolverAssignedException" /\ sd'._url = NoneValue /\ sd'.calls = sd.calls)
             /\ sd'.calls # sd.calls => (sd._url = NoneValue /\ sd.resolver)]_vars

\* url was read again after the resolver had answered: one invocation
C30_Witness ==
    /\ sd.op = "url"
    /\ sd.res = "ok"
    /\ sd.out = <<"resolved">>
    /\ sd.calls = 1
    /\ sd.reads = MaxReads

(***************************************************************************)
(* Further claims about the metadata lookup (SpecResolve).                 *)
(***************************************************************************)
\* C35: a metadata lookup that fails (no connection, or an error status)
\* creates or changes no entry of the response cache: the rows of the cache
\* table are the same after it, and a key has an entry only after a
\* successful lookup for that key.
C35_FailedLookupStoresNothing ==
    [][/\ netFailed' # netFailed => dbfile'.rows = dbfile.rows
       /\ \A k \in Keys : (RowsFor(dbfile, k) = {} /\ RowsFor(dbfile', k) # {})
                               => resolved'[k] = resolved[k] + 1]_vars

\* a lookup has failed for a key with no entry, another for a key with one
C35_Witness ==
    /\ useCache
    /\ \E k1 \in Keys, k2 \in Keys :
          /\ netFailed[k1] = 1 /\ resolved[k1] = 0 /\ RowsFor(dbfile, k1) = {}
          /\ netFailed[k2] = 1 /\ resolved[k2] >= 1 /\ RowsFor(dbfile, k2) # {}

(***************************************************************************)
(* SpecApi: the API object (api.py) and its get.  A request ends with a    *)
(* response (a status code and a body that is JSON text or is not) or with *)
(* a connection error.                                                     *)
(***************************************************************************)
Hosts == {"api.trillianverse.org", "localhost", "127.0.0.1"}

Paths == {"/astro/data/filename-search", "/astro/data/other"}

Statuses == {200, 201, 204, 400, 401, 403, 404, 429, 500, 501, 502, 503, 504}

Bodies == {"json", "not_json"}

ConnectionErrors == {"ConnectionError: Max retries exceeded", "ConnectionError: other"}

\* API.__init__
API_init(host) ==
    [made |-> TRUE, host |-> host,
     scheme |-> IF host \in {"127.0.0.1", "localhost"} THEN "http://" ELSE "https://",
     op |-> "API", url |-> <<>>, status |-> 0, body |-> "-", res |-> "ok"]

\* API.base_url
base_url(a) == <<a.scheme, a.host, ":", "443">>

\* response.raise_for_status(): requests raises HTTPError for 400..599
raise_for_status(status) == status >= 400 /\ status < 600

\* API.get, from the response on
API_get(a, path, status, body) ==
    LET called == [a EXCEPT !.op = "get", !.url = base_url(a) \o <<path>>,
                            !.status = status, !.body = body]
    IN IF ~raise_for_status(status)
       THEN [called EXCEPT !.res = IF body = "json" THEN "ok" ELSE "JSONDecodeError"]
       ELSE IF status = 500
       THEN [called EXCEPT !.res = IF body = "json" THEN "ErrorInAccessingAPI" ELSE "JSONDecodeError"]
       ELSE [called EXCEPT !.res = "Exception"]

InitApi ==
    /\ dbfile = NoFile
    /\ constructed = FALSE
    /\ hist = <<>>
    /\ ResolveIdle
    /\ MPIdle
    /\ FileIdle
    /\ cm = <<>>
    /\ sd = <<>>
    /\ kq = <<>>
    /\ ur = <<>>
    /\ ff = <<>>
    /\ api = [made |-> FALSE, host |-> "-", scheme |-> "-", op |-> "none", url |-> <<>>,
              status |-> 0, body |-> "-", res |-> "-"]

\* API(host=host): the one instance is made by the first call
NewAPI(host) ==
    /\ ~api.made
    /\ api' = API_init(host)
    /\ UNCHANGED <<cm, sd, kq, ur, ff, cacheVars, resolveVars, mpVars, fileVars>>

\* API().get(path): the server answers
ApiGet(path, status, body) ==
    /\ api.made
    /\ api' = API_get(api, path, status, body)
    /\ UNCHANGED <<cm, sd, kq, ur, ff, cacheVars, resolveVars, mpVars, fileVars>>

\* API().get(path): the request raises requests.exceptions.ConnectionError
ApiGetNoConnection(path, e) ==
    /\ api.made
    /\ api' = [api EXCEPT !.op = "get", !.url = base_url(api) \o <<path>>, !.status = 0, !.body = "-",
                          !.res = IF e = "ConnectionError: Max retries exceeded"
                                  THEN "Exception" ELSE "ConnectionError"]
    /\ UNCHANGED <<cm, sd, kq, ur, ff, cacheVars, resolveVars, mpVars, fileVars>>

NextApi ==
    \/ \E host \in Hosts : NewAPI(host)
    \/ \E path \in Paths, status \in Statuses, body \in Bodies : ApiGet(path, status, body)
    \/ \E path \in Paths, e \in ConnectionErrors : ApiGetNoConnection(path, e)

SpecApi == InitApi /\ [][NextApi]_vars

\* C36: every 5xx response of the metadata API is surfaced by API.get as the
\* server-side error ErrorInAccessingAPI, and no other error status is.
C36_ServerError ==
    (api.op = "get" /\ api.status >= 400)
        => (api.res = "ErrorInAccessingAPI" <=> api.status >= 500)

\* what get does: ErrorInAccessingAPI is raised for status 500 alone, and
\* only when the body of the response is JSON
C36_Only500 ==
    api.op = "get"
        => (api.res = "ErrorInAccessingAPI" <=> (api.status = 500 /\ api.body = "json"))

(***************************************************************************)
(* SpecKey: the cache key of genericFilenameResolver as text.  An argument *)
(* is <<>> (None) or <<s>> with s a string, a sequence of tokens as in     *)
(* SpecId; "None" is the token of the text None.                           *)
(***************************************************************************)
KeyDatasets == {<<>>, <<<<"a">>>>, <<<<"None">>>>}

KeyReleases == {<<>>, <<<<"a">>>>, <<<<"None">>>>}

KeyFilenames == {<<<<"a">>>>, <<<<"a", "/", "a">>>>}

KeyUniqueids == {<<>>, <<<<>>>>, <<<<"a">>>>}

KeyQueries == [dataset : KeyDatasets, release : KeyReleases, filename : KeyFilenames, uniqueid : KeyUniqueids]

\* str(v)
py_str(v) == IF v = <<>> THEN <<"None">> ELSE v[1]

\* bool(v) of None or a string
py_bool(v) == v # <<>> /\ v[1] # <<>>

\* CACHE_KEY as the text that "/".join makes
CACHE_KEY_join(q) ==
    IF py_bool(q.uniqueid)
    THEN join(<<<<"astro:file">>, py_str(q.dataset), py_str(q.release), py_str(q.filename), py_str(q.uniqueid)>>, "/")
    ELSE join(<<<<"astro:file">>, py_str(q.dataset), py_str(q.release), py_str(q.filename)>>, "/")

\* query_parameters: the query that is sent when the cache has no entry
query_parameters(q) ==
    [filename |-> q.filename,
     dataset |-> IF py_bool(q.dataset) THEN q.dataset ELSE <<>>,
     release |-> IF py_bool(q.release) THEN q.release ELSE <<>>,
     uniqueid |-> IF py_bool(q.uniqueid) THEN q.uniqueid ELSE <<>>]

InitKey ==
    /\ dbfile = NoFile
    /\ constructed = FALSE
    /\ hist = <<>>
    /\ ResolveIdle
    /\ MPIdle
    /\ FileIdle
    /\ cm = <<>>
    /\ sd = <<>>
    /\ api = <<>>
    /\ ur = <<>>
    /\ ff = <<>>
    /\ \E q1 \in KeyQueries, q2 \in KeyQueries :
          kq = [pc |-> "new", q1 |-> q1, q2 |-> q2, key1 |-> <<>>, key2 |-> <<>>,
                sent1 |-> query_parameters(q1), sent2 |-> query_parameters(q2)]

\* genericFilenameResolver is called with each of the two queries
ComputeKeys ==
    /\ kq.pc = "new"
    /\ kq' = [kq EXCEPT !.pc = "done", !.key1 = CACHE_KEY_join(kq.q1), !.key2 = CACHE_KEY_join(kq.q2)]
    /\ UNCHANGED <<cm, sd, api, ur, ff, cacheVars, resolveVars, mpVars, fileVars>>

NextKey == ComputeKeys

SpecKey == InitKey /\ [][NextKey]_vars

\* the parts of a query that are given hold neither "/" nor the text None
PlainParts(q) ==
    \A v \in {q.dataset, q.release, q.filename, q.uniqueid} :
        py_bool(v) => (~contains(v[1], "/") /\ v[1] # <<"None">>)

\* C40: two filename-search queries that differ in dataset, release, filename
\* or uniqueid (an absent value against a present one included) never have
\* the same cache key.
C40_CanonicalKey ==
    (kq.pc = "done" /\ kq.sent1 # kq.sent2) => kq.key1 # kq.key2

\* the same for queries whose parts hold neither "/" nor the text None
C40_PlainPartsKey ==
    (kq.pc = "done" /\ kq.sent1 # kq.sent2 /\ PlainParts(kq.q1) /\ PlainParts(kq.q2))
        => kq.key1 # kq.key2

(***************************************************************************)
(* The path within the cache (SpecPath).  The identifiers are file         *)
(* identifiers with up to MaxComps path components behind the scheme       *)
(* prefix, the last of them the file name.  An identifier is asked for its *)
(* path within its own cache and within another one, the cache manager is  *)
(* asked directly, and the identifier string is reassigned in between.     *)
(***************************************************************************)
PathComps == {<<"astro">>, <<"file">>, <<"x">>}

MaxComps == 5           \* path components of a file identifier

PathIds ==
    {SCHEME_PREFIX \o join(comps, "/") :
        comps \in UNION {[1..k -> PathComps] : k \in 1..MaxComps}}

\* SciDDFileResource.__init__: the identifier after construction
NewSciDDFileResource(raw) ==
    [NewSciDD(raw, TRUE) EXCEPT !.pc = "made", !.cls = "SciDDFileResource", !._scidd = raw]

InitPath ==
    /\ dbfile = NoFile
    /\ constructed = FALSE
    /\ hist = <<>>
    /\ ResolveIdle
    /\ MPIdle
    /\ FileIdle
    /\ cm = <<>>
    /\ CallIdle
    /\ \E raw \in PathIds : sd = NewSciDDFileResource(raw)

\* cache.pathWithinCache(sci_dd=s)
AskCacheManager(cache) ==
    /\ sd.pc = "made"
    /\ sd' = SciDDCacheManager_pathWithinCache(sd, cache)
    /\ UNCHANGED <<cm, callVars, cacheVars, resolveVars, mpVars, fileVars>>

NextPath ==
    \/ \E cache \in Caches : GetPathWithinCache(cache)
    \/ \E cache \in Caches : AskCacheManager(cache)
    \/ \E new_id \in NewIds : SetScidd(new_id)
    \/ Str

SpecPath == InitPath /\ [][NextPath]_vars

(***************************************************************************)
(* Claims about the path within the cache (SpecPath)                       *)
(***************************************************************************)
\* the path components of an identifier string behind the scheme prefix
Components(raw) == split(SubSeq(raw, Len(SCHEME_PREFIX) + 1, Len(raw)), "/")

\* the directory part of an identifier without its kind component "file"
DirectoryWithoutFile(raw) ==
    LET comps == Components(raw)
        dir == SubSeq(comps, 1, Len(comps) - 1)
        kept == IF Len(dir) >= 2 /\ dir[2] = <<"file">>
                THEN <<dir[1]>> \o SubSeq(dir, 3, Len(dir))
                ELSE dir
    IN join(kept, "/")

PathAsked == sd.op \in {"pathWithinCache", "cache.pathWithinCache"}

\* C33: the default path within the cache of a file identifier is the
\* directory part of the identifier without the scheme prefix and without
\* the "file" component, the other directories kept as they are, and it
\* does not begin with a path separator.
C33_DefaultPath ==
    (PathAsked /\ ~sd.reassigned)
        => /\ sd.res = "ok"
           /\ sd.out = DirectoryWithoutFile(sd.raw)
           /\ ~startswith(sd.out, <<"/">>)

\* what does hold: the same for every identifier that has a directory
\* below its "file" component, or no such component
C33_DefaultPathBelowFile ==
    (PathAsked /\ ~sd.reassigned
        /\ ~(Len(Components(sd.raw)) = 3 /\ Components(sd.raw)[2] = <<"file">>))
        => /\ sd.res = "ok"
           /\ sd.out = DirectoryWithoutFile(sd.raw)
           /\ ~startswith(sd.out, <<"/">>)

\* the path of an identifier whose "file" component was removed
C33_FileRemoved ==
    /\ PathAsked
    /\ ~sd.reassigned
    /\ Len(Components(sd.raw)) = MaxComps
    /\ Components(sd.raw)[2] = <<"file">>
    /\ sd.out = DirectoryWithoutFile(sd.raw)

\* C34: for an identifier and a cache manager the default algorithm runs at
\* most once; no entry of the dictionary begins with a path separator; a
\* call for a cache manager that has an entry returns that entry and leaves
\* the dictionary as it is; a call for one cache manager leaves the entry of
\* every other one as it is.
C34_MemoisedOnce ==
    [][(sd.pc = "made" /\ sd'.op \in {"pathWithinCache", "cache.pathWithinCache"})
        => \A c \in Caches :
              /\ sd'.computed[c] <= 1
              /\ ~startswith(sd'._path_within_cache[c], <<"/">>)
              /\ sd'.arg # <<c>> =>
                    /\ sd'._path_within_cache[c] = sd._path_within_cache[c]
                    /\ sd'.computed[c] = sd.computed[c]
              /\ (sd'.arg = <<c>> /\ sd._path_within_cache[c] # NoneValue) =>
                    /\ sd'.out = sd._path_within_cache[c]
                    /\ sd'._path_within_cache = sd._path_within_cache
                    /\ sd'.computed = sd.computed]_vars

\* both cache managers have an entry, the identifier string was reassigned
\* after that, and the path was asked for again
C34_Witness ==
    /\ sd.op = "pathWithinCache"
    /\ sd.reassigned
    /\ \A c \in Caches : sd._path_within_cache[c] # NoneValue /\ sd.computed[c] = 1
    /\ sd.out = sd._path_within_cache["other"]
    /\ sd.out # remove_file_component(parent_lstrip(SciDD_path(sd)))

(***************************************************************************)
(* Reading the url of an identifier through the dataset resolvers          *)
(* (SpecUrl).  ur is the read in progress:                                 *)
(*   kind, dataset   the class of the identifier and its dataset           *)
(*   resolver        a resolver is assigned                                *)
(*   defines_uid     the class of the identifier has the attribute         *)
(*                   filenameUniqueIdentifier (no class of the package     *)
(*                   has; TRUE stands for a subclass that adds it)         *)
(*   depth           url getters that have been entered and not left       *)
(*   entered         entries of resolveURLFromSciID                        *)
(*   searches        calls of genericFilenameResolver                      *)
(*   first           the number of records of the first search             *)
(* No frame of the read catches an exception, so a raise ends the read.    *)
(***************************************************************************)
UrlKinds == {"SciIDAstroFile", "SciIDAstroData", "SciID"}

UrlDatasets == {"galex", "2mass", "other"}

ResolvedDatasets == {"galex", "wise", "2mass", "sdss"}

MaxDepth == 3           \* url getters on the stack before RecursionError

RecordUrl == <<"http://galex/x.fits.gz">>

\* what a filename search gives: a number of records, or an exception
SearchAnswers == {0, 1, 2, -1}

InitUrl ==
    /\ dbfile = NoFile
    /\ constructed = FALSE
    /\ hist = <<>>
    /\ ResolveIdle
    /\ MPIdle
    /\ FileIdle
    /\ cm = <<>>
    /\ sd = <<>>
    /\ api = <<>>
    /\ kq = <<>>
    /\ ff = <<>>
    /\ \E kind \in UrlKinds, dataset \in UrlDatasets, resolver \in BOOLEAN,
          defines_uid \in BOOLEAN, _url \in {NoneValue, <<"assigned">>} :
          ur = [pc |-> "url", kind |-> kind, dataset |-> dataset, resolver |-> resolver,
                defines_uid |-> defines_uid, _url |-> _url, depth |-> 0, entered |-> 0,
                searches |-> 0, first |-> -2, res |-> "-", out |-> NoneValue]

UrlEnd(u, res, out) == [u EXCEPT !.pc = "end", !.res = res, !.out = out]

\* SciID.url (getter), up to the call of the resolver
SciID_url_enter(u) ==
    IF u._url # NoneValue THEN UrlEnd(u, "ok", u._url)
    ELSE IF ~u.resolver THEN UrlEnd(u, "NoResolverAssignedException", NoneValue)
    ELSE IF u.depth = MaxDepth THEN UrlEnd(u, "RecursionError", NoneValue)
    ELSE [u EXCEPT !.pc = "urlForSciID", !.depth = @ + 1]

\* SciIDAstroResolver.urlForSciID, up to the call of the dataset resolver
urlForSciID(u) ==
    IF u.kind = "SciIDAstroData" THEN UrlEnd(u, "NotImplementedError", NoneValue)
    ELSE IF u.kind = "SciIDAstroFile"
    THEN IF u.dataset \in ResolvedDatasets
         THEN [u EXCEPT !.pc = "resolveURLFromSciID", !.entered = @ + 1]
         ELSE UrlEnd(u, "NotImplementedError", NoneValue)
    ELSE UrlEnd(u, "NotImplementedError", NoneValue)

\* DatasetResolverBase.resolveURLFromSciID, up to its read of sci_id.url
resolveURLFromSciID(u, answer) ==
    IF ~u.defines_uid THEN UrlEnd(u, "AttributeError", NoneValue)
    ELSE LET searched == [u EXCEPT !.searches = @ + 1,
                                   !.first = IF u.searches = 0 THEN answer ELSE @]
         IN IF answer = -1 THEN UrlEnd(searched, "TrillianAPIException", NoneValue)
            ELSE IF answer = 1 THEN [searched EXCEPT !.pc = "url"]
            ELSE UrlEnd(searched, "NotImplementedError", NoneValue)

\* s.url, and the read of sci_id.url inside resolveURLFromSciID
EnterUrl ==
    /\ ur.pc = "url"
    /\ ur' = SciID_url_enter(ur)
    /\ UNCHANGED <<cm, sd, api, kq, ff, cacheVars, resolveVars, mpVars, fileVars>>

\* self.resolver.urlForSciID(self)
EnterUrlForSciID ==
    /\ ur.pc = "urlForSciID"
    /\ ur' = urlForSciID(ur)
    /\ UNCHANGED <<cm, sd, api, kq, ff, cacheVars, resolveVars, mpVars, fileVars>>

\* GALEXResolver().resolveURLFromSciID(sci_id)
EnterResolveURLFromSciID(answer) ==
    /\ ur.pc = "resolveURLFromSciID"
    /\ ur' = resolveURLFromSciID(ur, answer)
    /\ UNCHANGED <<cm, sd, api, kq, ff, cacheVars, resolveVars, mpVars, fileVars>>

NextUrl ==
    \/ EnterUrl
    \/ EnterUrlForSciID
    \/ \E answer \in SearchAnswers : EnterResolveURLFromSciID(answer)

SpecUrl == InitUrl /\ [][NextUrl]_vars

(***************************************************************************)
(* Claims about reading the url (SpecUrl)                                  *)
(***************************************************************************)
\* C31: a read of the url of a file identifier whose filename search gives
\* exactly one record ends, returns the url of that record, and has entered
\* the dataset resolver once.
C31_OneRecordResolves ==
    (ur.pc = "end" /\ ur.kind = "SciIDAstroFile" /\ ur._url = NoneValue /\ ur.resolver
        /\ ur.dataset \in ResolvedDatasets /\ ur.first \in {-2, 1})
        => /\ ur.res = "ok"
           /\ ur.out = RecordUrl
           /\ ur.entered = 1

\* what does hold: a read that has entered the dataset resolver ends with
\* an exception, and with AttributeError before any search when the class
\* has no attribute filenameUniqueIdentifier
C31_ResolverNeverReturns ==
    (ur.pc = "end" /\ ur.entered >= 1)
        => /\ ur.res # "ok"
           /\ ~ur.defines_uid => (ur.res = "AttributeError" /\ ur.searches = 0 /\ ur.entered = 1)
           /\ (ur.defines_uid /\ ur.first = 1 /\ ur.res = "RecursionError") => ur.entered = MaxDepth

\* the accessor was entered again from inside the dataset resolver until
\* the stack was full
C31_Reentered ==
    /\ ur.pc = "end"
    /\ ur.res = "RecursionError"
    /\ ur.first = 1
    /\ ur.entered = MaxDepth
    /\ ur.searches = MaxDepth

(***************************************************************************)
(* An identifier from a filename (SpecFrom).  ff is the call in progress   *)
(* and the response cache entry of each filename:                          *)
(*   cached[f]   the number of records stored for f, -1 when none is       *)
(*   n           the number of records the call works with                 *)
(*   msg         what the exception of the call says                       *)
(*   out         the identifiers returned, by the number of their record   *)
(***************************************************************************)
FromFilenames == {NoneValue, <<>>, <<"a.fits">>, <<"b.fits">>}

FromDomains == {"astro", "bio"}

MaxResults == 2         \* records a filename search returns

CachedFilenames == {f \in FromFilenames : f # NoneValue /\ Len(f) > 0}

NoCall ==
    [pc |-> "idle", filename |-> NoneValue, domain |-> "-", allow_multiple_results |-> FALSE,
     n |-> -1, searched |-> FALSE, res |-> "-", msg |-> "-", out |-> <<>>]

InitFrom ==
    /\ dbfile = NoFile
    /\ constructed = FALSE
    /\ hist = <<>>
    /\ ResolveIdle
    /\ MPIdle
    /\ FileIdle
    /\ cm = <<>>
    /\ sd = <<>>
    /\ api = <<>>
    /\ kq = <<>>
    /\ ur = <<>>
    /\ ff = [call |-> NoCall, cached |-> [f \in CachedFilenames |-> -1]]

FromEnd(c, res, msg, out) == [c EXCEPT !.pc = "end", !.res = res, !.msg = msg, !.out = out]

\* SciDD.fromFilename, up to the call of the class of the domain
SciDD_fromFilename(c) ==
    IF c.filename = NoneValue \/ Len(c.filename) = 0
    THEN FromEnd(c, "ValueError", "A filename must be provided.", <<>>)
    ELSE IF c.domain = "astro" THEN [c EXCEPT !.pc = "SciIDAstroFile.fromFilename"]
    ELSE FromEnd(c, "NotImplementedError", "domain", <<>>)

\* SciIDAstroFile.fromFilename, from the list of results on: the loop over
\* the list names its variable record and reads rec
results_of_SciIDAstroFile_fromFilename(c) ==
    IF c.allow_multiple_results
    THEN IF c.n >= 1 THEN FromEnd(c, "NameError", "name 'rec' is not defined", <<>>)
         ELSE FromEnd(c, "ok", "-", <<>>)
    ELSE IF c.n = 1 THEN FromEnd(c, "ok", "-", <<1>>)
    ELSE IF c.n > 1 THEN FromEnd(c, "UnableToResolveFilenameToSciID", "Multiple SciIDs were found", <<>>)
    ELSE FromEnd(c, "UnableToResolveFilenameToSciID", "Could not find the filename", <<>>)

\* SciDD.fromFilename(filename, domain, allow_multiple_results)
CallFromFilename(name, domain, allow_multiple_results) ==
    /\ ff.call.pc \in {"idle", "end"}
    /\ ff' = [ff EXCEPT !.call = SciDD_fromFilename(
                 [NoCall EXCEPT !.filename = name, !.domain = domain,
                                !.allow_multiple_results = allow_multiple_results])]
    /\ UNCHANGED <<cm, sd, api, kq, ur, cacheVars, resolveVars, mpVars, fileVars>>

\* SciIDAstroFile.fromFilename: the list of results is in the cache
FromCacheHit ==
    /\ ff.call.pc = "SciIDAstroFile.fromFilename"
    /\ ff.cached[ff.call.filename] # -1
    /\ ff' = [ff EXCEPT !.call = results_of_SciIDAstroFile_fromFilename(
                 [ff.call EXCEPT !.n = ff.cached[ff.call.filename]])]
    /\ UNCHANGED <<cm, sd, api, kq, ur, cacheVars, resolveVars, mpVars, fileVars>>

\* SciIDAstroFile.fromFilename: the filename search gives n records, which are
\* written to the cache
FromSearch(n) ==
    /\ ff.call.pc = "SciIDAstroFile.fromFilename"
    /\ ff.cached[ff.call.filename] = -1
    /\ ff' = [ff EXCEPT !.call = results_of_SciIDAstroFile_fromFilename(
                            [ff.call EXCEPT !.n = n, !.searched = TRUE]),
                        !.cached[ff.call.filename] = n]
    /\ UNCHANGED <<cm, sd, api, kq, ur, cacheVars, resolveVars, mpVars, fileVars>>

\* SciIDAstroFile.fromFilename: the filename search, or the write of its
\* records to the cache, raises
FromSearchRaises(stored) ==
    /\ ff.call.pc = "SciIDAstroFile.fromFilename"
    /\ ff.cached[ff.call.filename] = -1
    /\ ff' = [ff EXCEPT !.call = FromEnd([ff.call EXCEPT !.searched = TRUE],
                                          "Exception", IF stored THEN "cache" ELSE "search", <<>>)]
    /\ UNCHANGED <<cm, sd, api, kq, ur, cacheVars, resolveVars, mpVars, fileVars>>

NextFrom ==
    \/ \E name \in FromFilenames, domain \in FromDomains, allow_multiple_results \in BOOLEAN :
          CallFromFilename(name, domain, allow_multiple_results)
    \/ FromCacheHit
    \/ \E n \in 0..MaxResults : FromSearch(n)
    \/ \E stored \in BOOLEAN : FromSearchRaises(stored)

SpecFrom == InitFrom /\ [][NextFrom]_vars

(***************************************************************************)
(* Claims about an identifier from a filename (SpecFrom)                   *)
(***************************************************************************)
FromResults == ff.call.pc = "end" /\ ff.call.n >= 0

C32_FromFilenameSingle ==
    FromResults =>
        IF ff.call.allow_multiple_results
        THEN IF ff.call.n = 0 THEN ff.call.res = "ok" /\ ff.call.out = <<>>
             ELSE ff.call.res = "NameError"
        ELSE /\ ff.call.n = 1 => (ff.call.res = "ok" /\ ff.call.out = <<1>>)
             /\ ff.call.n > 1 => (ff.call.res = "UnableToResolveFilenameToSciID"
                                    /\ ff.call.msg = "Multiple SciIDs were found")
             /\ ff.call.n = 0 => (ff.call.res = "UnableToResolveFilenameToSciID"
                                    /\ ff.call.msg = "Could not find the filename")

\* a call with allow_multiple_results found several matches in the cache
C32_ListAsked ==
    /\ FromResults
    /\ ff.call.allow_multiple_results
    /\ ~ff.call.searched
    /\ ff.call.n = MaxResults

(***************************************************************************)
(* Further claims about the file cache (SpecFile)                          *)
(***************************************************************************)
\* what isInCache returns for the object in the files as they are
isInCache(fs, ds, P) ==
    /\ exists(fs, ds, expected_filepath(P))
    /\ FileAt(fs, expected_filepath(P)).size # 0

\* C37: after a downloadTo that returned a path, isInCache of the same
\* object is true (and a second downloadTo returns from the cache without a
\* request), whatever the extension of the url and the decompression setting.
C37_Idempotent ==
    \A p \in FProcs :
        LET P == fproc[p]
        IN (Ended(p, "downloadTo") /\ P.res = "ok") => isInCache(files, dirs, P)

\* what does hold: the same for every call but the one that streamed the
\* file of a url with a compressed extension
C37_ExceptCompressedUrl ==
    \A p \in FProcs :
        LET P == fproc[p]
        IN (/\ Ended(p, "downloadTo")
            /\ P.res = "ok"
            /\ ~(Gets(P) # <<>> /\ Heads(P) = <<>> /\ IsCompressedExt(splitext(P.o_url))))
           => isInCache(files, dirs, P)

\* C38: a downloadTo that got the file from the server returns a path in the
\* directory it was given (the cache directory when none was given), for the
\* streamed download, the decompressing one and the one of a compressed copy
\* found after a 404.
C38_InGivenDirectory ==
    \A p \in FProcs :
        LET P == fproc[p]
        IN (Ended(p, "downloadTo") /\ P.res = "ok" /\ Gets(P) # <<>>)
           => /\ P.out[1] = (IF P.arg = "None" THEN "cache" ELSE P.arg)
              /\ HasFile(files, P.out)

\* what does hold: the returned path is in the cache directory, whatever
\* directory was given, and every call that returns is a streamed one
C38_InCacheDirectory ==
    \A p \in FProcs :
        LET P == fproc[p]
        IN (Ended(p, "downloadTo") /\ P.res = "ok" /\ Gets(P) # <<>>)
           => /\ P.out[1] = "cache"
              /\ P.mode = "stream"
              /\ HasFile(files, P.out)

\* C39: no file of the cache holds the body of a response with an error
\* status, whichever request fetched it.
C39_OnlySuccessBodies ==
    \A f \in files : f.data # "err"

\* what does hold: the body of an error response is written only by the
\* streamed download of a compressed copy found after a 404
C39_ErrorBodyOnlyAfterProbe ==
    \A p \in FProcs :
        LET P == fproc[p]
        IN (P.body = "err" /\ P.written > 0) => (P.mode = "stream" /\ FoundCompressed(P))
====
